---- MODULE Spec2Model ----
(***************************************************************************)
(* The retrieval-augmented query pipeline of the news chatbot backend and  *)
(* the Redis-backed session and query-result store it runs on.             *)
(*                                                                         *)
(* Every request is a process p.  One step of a process is the completion  *)
(* of one awaited I/O call (a Redis command, a gateway call) together with *)
(* the synchronous code that follows it up to the next await: that is the  *)
(* granularity at which Node interleaves requests.  Redis commands are     *)
(* atomic and return within the instant; time passes in Tick steps, which  *)
(* age every key, between requests and while a request waits for a         *)
(* gateway (the HTTP clients set no timeout).                              *)
(*                                                                         *)
(* The session store functions are modelled against a reachable Redis; a   *)
(* failing Redis command is modelled where the pipeline (processQuery)     *)
(* issues it.  Whether gateways and the cache store may fail in a          *)
(* behaviour is the variable faults, whether a generation credential is    *)
(* configured the variable geminiKey: both are fixed at start-up.  The     *)
(* points of the vector index's collection are the variable qdrant, the   *)
(* collections that the index holds the variable collections.              *)
(***************************************************************************)
EXTENDS Integers, Sequences, FiniteSets, TLC

VARIABLES redis, now, nextUuid, budget, geminiKey, faults, qdrant, collections,
          pc, req, loc, out, res, calls, trace, written

vars == <<redis, now, nextUuid, budget, geminiKey, faults, qdrant, collections,
          pc, req, loc, out, res, calls, trace, written>>

(***************************************************************************)
(* Bounds of the model.                                                    *)
(***************************************************************************)
\* Operations (requests and calls) started in one behaviour: of the service
\* with one request at a time, of processQuery with concurrent callers, and
\* of the session store.
MaxOps == 2
MaxRaceOps == 3
MaxStoreOps == 3
\* Tick steps in one behaviour of each.
MaxTime == 1
MaxRaceTime == 2
MaxStoreTime == 2
\* Calls and Tick steps in one behaviour of the session store over a
\* session's whole lifetime.
MaxLifeOps == 2
MaxLifeTime == 5
\* Calls and Tick steps in one behaviour of the session store with
\* concurrent callers.
MaxAppendOps == 3
MaxAppendTime == 1
\* Chat turns and Tick steps in one behaviour of the service that starts
\* with a conversation on record, and the most messages of that conversation.
MaxHistoryOps == 1
MaxHistoryTime == 1
MaxHistory == 7
\* Chat turns in one behaviour of the service that is sent messages of every
\* kind.
MaxValidateOps == 2
\* Ingestion runs in one behaviour, and the most documents that the feeds of
\* one run deliver.
MaxIngestOps == 1
MaxBatch == 2
\* Chat turns and Tick steps in one behaviour of the service over the
\* lifetime of a cache entry.
MaxExpiryOps == 2
MaxExpiryTime == 2
\* Searches of the vector index and chat turns in one behaviour of both.
MaxSearchOps == 2
\* Calls of the embedding gateway and chat turns in one behaviour of both.
MaxEmbedOps == 2
\* The longest query text, in UTF-16 code units, whose cache key is derived,
\* and the key derivations in one behaviour.
MaxKeyLen == 2
MaxKeyOps == 2
\* Calls of the store's functions in one behaviour of overlapping callers.
MaxConfineOps == 2
\* Calls of the vector index's collection functions in one behaviour of
\* overlapping callers.
MaxCollectionOps == 2
\* Chat turns in one behaviour of overlapping turns in one new session.
MaxAskRaceOps == 2
\* Requests and Tick steps in one behaviour of a chat turn whose session is
\* cleared or runs out.
MaxClearOps == 2
MaxClearTime == 4
\* Seconds that pass in one Tick step.
TickSeconds == 900

Procs == {"p1", "p2"}
SessionIds == {"s1", "s2"}
\* The query text of the model.
Queries == {"Why?"}
\* Answer texts the live generation provider may return.
LiveTexts == {"answer A", "answer B"}

(***************************************************************************)
(* Program constants.                                                      *)
(***************************************************************************)
QueryCacheTTL == 1800
DefaultSessionTTL == 3600
MinQueryLength == 3
MaxQueryLength == 500

(***************************************************************************)
(* JavaScript values.                                                      *)
(***************************************************************************)
\* null, as a record so that it compares with every object of the model.
Null == [null |-> TRUE]
\* undefined, for string-valued properties.
Undefined == "<undefined>"
OptionalStringFields == {"userAgent", "ipAddress"}

\* { ...a, ...b }
Spread(a, b) ==
  [k \in (DOMAIN a) \cup (DOMAIN b) |-> IF k \in DOMAIN b THEN b[k] ELSE a[k]]

\* JSON.parse(JSON.stringify(v)) of an object: properties whose value is
\* undefined are not written.
JsonRoundTrip(v) ==
  LET keep == {k \in DOMAIN v : ~(k \in OptionalStringFields /\ v[k] = Undefined)}
  IN  [k \in keep |-> v[k]]

RECURSIVE MapSources(_)
\* context.map((doc) => ({ title, url, source }))
MapSources(context) ==
  IF context = <<>> THEN <<>>
  ELSE <<[title |-> Head(context).title, url |-> Head(context).url,
          source |-> Head(context).source]>> \o MapSources(Tail(context))

(***************************************************************************)
(* The cache key: Buffer.from(query).toString("base64").                   *)
(***************************************************************************)
\* A text of n letters x.
Letters(n) == [i \in 1..n |-> 120]

\* The UTF-16 code units of the message texts of the model.  The texts made
\* of letters x are named by their length: the longest that is valid, with
\* and without white space around it, and the shortest that is too long.
CodeUnits(q) ==
  CASE q = "Why?" -> <<87, 104, 121, 63>>
    [] q = "hi" -> <<104, 105>>
    [] q = "Why" -> <<87, 104, 121>>
    [] q = " hi\t" -> <<32, 104, 105, 9>>
    [] q = "x * max" -> Letters(MaxQueryLength)
    [] q = " x * max " -> <<32>> \o Letters(MaxQueryLength) \o <<160>>
    [] q = "x * (max + 1)" -> Letters(MaxQueryLength + 1)
    [] OTHER -> <<>>

RECURSIVE Utf8(_)
\* Buffer.from(string): the UTF-8 bytes of a sequence of UTF-16 code units;
\* a surrogate pair is one code point, a lone surrogate becomes U+FFFD.
Utf8(u) ==
  IF u = <<>> THEN <<>>
  ELSE LET c == Head(u) IN
    IF c < 128 THEN <<c>> \o Utf8(Tail(u))
    ELSE IF c < 2048 THEN <<192 + (c \div 64), 128 + (c % 64)>> \o Utf8(Tail(u))
    ELSE IF c >= 55296 /\ c <= 56319 /\ Len(u) >= 2
            /\ u[2] >= 56320 /\ u[2] <= 57343
      THEN LET cp == 65536 + (c - 55296) * 1024 + (u[2] - 56320) IN
           <<240 + (cp \div 262144), 128 + ((cp \div 4096) % 64),
             128 + ((cp \div 64) % 64), 128 + (cp % 64)>> \o Utf8(Tail(Tail(u)))
    ELSE IF c >= 55296 /\ c <= 57343 THEN <<239, 191, 189>> \o Utf8(Tail(u))
    ELSE <<224 + (c \div 4096), 128 + ((c \div 64) % 64), 128 + (c % 64)>>
         \o Utf8(Tail(u))

Base64Alphabet ==
  <<"A","B","C","D","E","F","G","H","I","J","K","L","M","N","O","P",
    "Q","R","S","T","U","V","W","X","Y","Z","a","b","c","d","e","f",
    "g","h","i","j","k","l","m","n","o","p","q","r","s","t","u","v",
    "w","x","y","z","0","1","2","3","4","5","6","7","8","9","+","/">>

B64Char(n) == Base64Alphabet[n + 1]

RECURSIVE Base64(_)
\* toString("base64") of a byte sequence: 3 bytes to 4 characters, "=" padded.
Base64(b) ==
  IF b = <<>> THEN ""
  ELSE IF Len(b) = 1 THEN
    B64Char(b[1] \div 4) \o B64Char((b[1] % 4) * 16) \o "=="
  ELSE IF Len(b) = 2 THEN
    B64Char(b[1] \div 4) \o B64Char((b[1] % 4) * 16 + (b[2] \div 16))
      \o B64Char((b[2] % 16) * 4) \o "="
  ELSE
    B64Char(b[1] \div 4) \o B64Char((b[1] % 4) * 16 + (b[2] \div 16))
      \o B64Char((b[2] % 16) * 4 + (b[3] \div 64)) \o B64Char(b[3] % 64)
      \o Base64(SubSeq(b, 4, Len(b)))

\* const cacheKey = `query:${Buffer.from(query).toString("base64")}`, for a
\* query given as its UTF-16 code units.
CacheKeyOfUnits(u) == "query:" \o Base64(Utf8(u))

QueryCacheKey(query) == CacheKeyOfUnits(CodeUnits(query))

(***************************************************************************)
(* Redis: a map from the keys present to their value and remaining TTL.    *)
(***************************************************************************)
\* client.get(key): the stored string, parsed; null when the key is absent.
RedisGet(store, key) ==
  IF key \in DOMAIN store THEN store[key].val ELSE Null

\* client.setEx(key, ttl, JSON.stringify(value))
RedisSetEx(store, key, ttl, value) ==
  [k \in (DOMAIN store) \cup {key} |->
     IF k = key THEN [val |-> JsonRoundTrip(value), ttl |-> ttl] ELSE store[k]]

\* client.del(key)
RedisDel(store, key) ==
  [k \in (DOMAIN store) \ {key} |-> store[k]]

\* The passing of d seconds: every key ages, and a key whose TTL is used up
\* is gone.
RedisAge(store, d) ==
  [k \in {x \in DOMAIN store : store[x].ttl > d} |->
     [val |-> store[k].val, ttl |-> store[k].ttl - d]]

SessionKey(sessionId) == "session:" \o sessionId
CacheKey_Unprefixed(key) == key

\* const cacheKey = `cache:${key}`
CacheKey(key) == "cache:" \o key

\* parseInt(process.env.SESSION_TTL) || 3600, with SESSION_TTL unset
SessionTTL == DefaultSessionTTL

(***************************************************************************)
(* The session store's values.                                             *)
(***************************************************************************)
NewSessionData_Seeded(sessionId, initialData, t) ==
  Spread([id |-> sessionId, createdAt |-> t,
          messages |-> <<[role |-> "assistant", content |-> "Welcome"]>>],
         initialData)

\* createSession: { id, createdAt, messages: [], ...initialData }
NewSessionData(sessionId, initialData, t) ==
  Spread([id |-> sessionId, createdAt |-> t, messages |-> <<>>], initialData)

UpdatedSession_ExistingWins(existingSession, updates, t) ==
  Spread(Spread(updates, existingSession), [updatedAt |-> t])

\* updateSession: { ...existingSession, ...updates, updatedAt }
UpdatedSession(existingSession, updates, t) ==
  Spread(Spread(existingSession, updates), [updatedAt |-> t])

UpdatedMessages_Replacing(session, message, t, uuid) ==
  <<Spread(message, [timestamp |-> t, id |-> uuid])>>

UpdatedMessages_Prepend(session, message, t, uuid) ==
  <<Spread(message, [timestamp |-> t, id |-> uuid])>> \o session.messages

\* addMessageToSession: [...session.messages, { ...message, timestamp, id }]
UpdatedMessages(session, message, t, uuid) ==
  Append(session.messages, Spread(message, [timestamp |-> t, id |-> uuid]))

\* The initialData arguments of the model: none (the chat route), the session
\* route's { userAgent, ipAddress } with and without a User-Agent header, and
\* one that carries a messages property.
SeedMessage == [role |-> "user", content |-> "seed", timestamp |-> 0, id |-> 0]
NoData == <<>>
Metas ==
  { NoData,
    [userAgent |-> Undefined, ipAddress |-> "10.0.0.1"],
    [messages |-> <<SeedMessage>>] }

\* The updates arguments of the model (the body of PUT /api/session/:id).
Updates == { NoData, [title |-> "renamed"], [messages |-> <<>>] }

\* The message arguments of a direct addMessageToSession call.
DirectMessages == { [role |-> "user", content |-> "note"] }

(***************************************************************************)
(* The vector index's collections: a map from the names of the collections *)
(* that exist to their vector configuration.                               *)
(***************************************************************************)
CollectionName == "news_articles"
VectorSize == 768

CollectionExists_Never(cols) == FALSE

\* collections.data.result.collections.some((col) => col.name === COLLECTION_NAME)
CollectionExists(cols) == CollectionName \in DOMAIN cols

\* What PUT /collections/news_articles with { vectors: { size: 768,
\* distance: "Cosine" }, ... } leaves in an index without that collection.
Created(cols) ==
  [n \in (DOMAIN cols) \cup {CollectionName} |->
     IF n = CollectionName THEN [size |-> VectorSize, distance |-> "Cosine"]
     ELSE cols[n]]

(***************************************************************************)
(* Process state.                                                          *)
(***************************************************************************)
NoReq ==
  [op |-> "none", sessionId |-> "", message |-> "", streaming |-> FALSE,
   data |-> NoData]

NoLoc ==
  [session |-> Null, sessionHistory |-> <<>>, ret |-> "",
   amMsg |-> Null, usUpdates |-> NoData, usUpdated |-> Null,
   queryEmbedding |-> Null, similarDocs |-> <<>>,
   finalResult |-> Null, ragResult |-> Null, pqError |-> "", storedBefore |-> <<>>,
   justCreated |-> FALSE, historyText |-> Undefined, prevTurn |-> <<>>,
   uniqueArticles |-> <<>>, enrichedArticles |-> <<>>,
   articlesWithEmbeddings |-> <<>>, keys |-> <<>>, sessions |-> <<>>]

NoOut == [kind |-> "none", value |-> Null, error |-> ""]
NoRes ==
  [status |-> 0, headersSent |-> FALSE, ended |-> FALSE, chunks |-> <<>>,
   body |-> Null]
\* The calls an operation has made: to the three gateways, the SETEX commands
\* that it has had carried out on session keys and on cache keys, and the
\* upserts that the vector index has carried out for it; and the limit and
\* the score threshold that its last search was called with.
NoCalls ==
  [embed |-> 0, search |-> 0, generate |-> 0, sessionSet |-> 0, cacheSet |-> 0,
   upsert |-> 0, searchArgs |-> <<>>]

Returned(v) == [kind |-> "return", value |-> v, error |-> ""]
Thrown(msg) == [kind |-> "throw", value |-> Null, error |-> msg]

\* The service after start-up, with an empty Redis, in the given environments.
InitIn(keys, faulty, ops, ticks) ==
  /\ redis = <<>>
  /\ now = 0
  /\ nextUuid = 1
  /\ budget = [ops |-> ops, ticks |-> ticks]
  /\ geminiKey \in keys
  /\ faults \in faulty
  /\ qdrant = <<>>
  /\ collections = Created(<<>>)
  /\ pc = [p \in Procs |-> "idle"]
  /\ req = [p \in Procs |-> NoReq]
  /\ loc = [p \in Procs |-> NoLoc]
  /\ out = [p \in Procs |-> NoOut]
  /\ res = [p \in Procs |-> NoRes]
  /\ calls = [p \in Procs |-> NoCalls]
  /\ trace = [p \in Procs |-> <<>>]
  /\ written = <<>>

Init == InitIn({TRUE}, {TRUE}, MaxOps, MaxTime)

Busy(p) == pc[p] \notin {"idle", "done"}

\* A process is free to take a new operation.  Processes are interchangeable,
\* so the free process that takes it is the first one in this order: "p2"
\* serves only while "p1" is busy.
Free(p) ==
  /\ ~Busy(p)
  /\ budget.ops > 0
  /\ p = "p2" => Busy("p1")

\* What a process holds when it starts operation r at label with locals l;
\* what the finished operations left behind for inspection is dropped.
Begin(p, r, label, l) ==
  /\ Free(p)
  /\ budget' = [budget EXCEPT !.ops = @ - 1]
  /\ pc' = [q \in Procs |-> IF q = p THEN label
                            ELSE IF Busy(q) THEN pc[q] ELSE "idle"]
  /\ req' = [q \in Procs |-> IF q = p THEN r ELSE IF Busy(q) THEN req[q] ELSE NoReq]
  /\ loc' = [q \in Procs |-> IF q = p THEN l ELSE IF Busy(q) THEN loc[q] ELSE NoLoc]
  /\ out' = [q \in Procs |-> IF Busy(q) /\ q # p THEN out[q] ELSE NoOut]
  /\ res' = [q \in Procs |-> IF Busy(q) /\ q # p THEN res[q] ELSE NoRes]
  /\ calls' = [q \in Procs |-> IF Busy(q) /\ q # p THEN calls[q] ELSE NoCalls]
  /\ trace' = [q \in Procs |-> IF Busy(q) /\ q # p THEN trace[q] ELSE <<>>]

\* res.status(500).json(...) in the route's catch, unless the headers are sent.
CatchResponse(r) ==
  IF r.headersSent THEN r
  ELSE [r EXCEPT !.status = 500, !.headersSent = TRUE, !.ended = TRUE,
                 !.body = [success |-> FALSE, error |-> "Failed to process message"]]

\* An error thrown in process p: it ends a store call with that error, and in
\* the chat route it reaches the route's catch.
Throw(p, msg) ==
  /\ pc' = [pc EXCEPT ![p] = "done"]
  /\ out' = [out EXCEPT ![p] = Thrown(msg)]
  /\ res' = [res EXCEPT ![p] = IF req[p].op = "ask" THEN CatchResponse(@) ELSE @]

(***************************************************************************)
(* The session store (services/redis).                                     *)
(***************************************************************************)
\* createSession(sessionId, initialData): one SETEX.
CreateSession(p) ==
  /\ pc[p] = "createSession"
  /\ LET sessionData == NewSessionData(req[p].sessionId, req[p].data, now) IN
     /\ redis' = RedisSetEx(redis, SessionKey(req[p].sessionId), SessionTTL,
                            sessionData)
     /\ pc' = [pc EXCEPT ![p] = "done"]
     /\ out' = [out EXCEPT ![p] = Returned(sessionData)]
  /\ calls' = [calls EXCEPT ![p].sessionSet = @ + 1]
  /\ UNCHANGED <<now, nextUuid, budget, geminiKey, faults, qdrant, collections, req, loc, res, trace,
                 written>>

GetSession_Touching(p) ==
  /\ pc[p] = "getSession"
  /\ pc' = [pc EXCEPT ![p] = "done"]
  /\ out' = [out EXCEPT ![p] = Returned(RedisGet(redis, SessionKey(req[p].sessionId)))]
  /\ redis' = IF SessionKey(req[p].sessionId) \in DOMAIN redis
              THEN RedisSetEx(redis, SessionKey(req[p].sessionId), SessionTTL,
                              redis[SessionKey(req[p].sessionId)].val)
              ELSE redis
  /\ UNCHANGED <<now, nextUuid, budget, geminiKey, faults, qdrant, collections, req, loc, res,
                 calls, trace, written>>

\* getSession(sessionId): one GET.
GetSession(p) ==
  /\ pc[p] = "getSession"
  /\ pc' = [pc EXCEPT ![p] = "done"]
  /\ out' = [out EXCEPT ![p] = Returned(RedisGet(redis, SessionKey(req[p].sessionId)))]
  /\ UNCHANGED <<redis, now, nextUuid, budget, geminiKey, faults, qdrant, collections, req, loc, res,
                 calls, trace, written>>

ClearSession_Strict(p) ==
  /\ pc[p] = "clearSession"
  /\ IF SessionKey(req[p].sessionId) \in DOMAIN redis
     THEN /\ redis' = RedisDel(redis, SessionKey(req[p].sessionId))
          /\ pc' = [pc EXCEPT ![p] = "done"]
          /\ out' = [out EXCEPT ![p] = Returned(Null)]
          /\ res' = res
     ELSE /\ Throw(p, "Session not found")
          /\ redis' = redis
  /\ UNCHANGED <<now, nextUuid, budget, geminiKey, faults, qdrant, collections, req, loc, calls,
                 trace, written>>

\* clearSession(sessionId): one DEL.
ClearSession(p) ==
  /\ pc[p] = "clearSession"
  /\ redis' = RedisDel(redis, SessionKey(req[p].sessionId))
  /\ pc' = [pc EXCEPT ![p] = "done"]
  /\ out' = [out EXCEPT ![p] = Returned(Null)]
  /\ UNCHANGED <<now, nextUuid, budget, geminiKey, faults, qdrant, collections, req, loc, res, calls,
                 trace, written>>

AmGet_Creating(p) ==
  /\ pc[p] = "am_get"
  /\ LET stored == RedisGet(redis, SessionKey(req[p].sessionId))
         session == IF stored = Null
                    THEN NewSessionData(req[p].sessionId, NoData, now)
                    ELSE stored IN
     /\ redis' = IF stored = Null
                 THEN RedisSetEx(redis, SessionKey(req[p].sessionId), SessionTTL,
                                 session)
                 ELSE redis
     /\ loc' = [loc EXCEPT ![p].usUpdates =
                   [messages |-> UpdatedMessages(session, loc[p].amMsg, now, nextUuid)]]
     /\ nextUuid' = nextUuid + 1
     /\ pc' = [pc EXCEPT ![p] = "us_get"]
  /\ UNCHANGED <<now, budget, geminiKey, faults, qdrant, collections, req, out, res, calls, trace, written>>

\* addMessageToSession, first await: getSession (the first read).  An absent
\* session throws; otherwise the new message is stamped and the message list
\* is built from this read, and updateSession is entered.
AmGet(p) ==
  /\ pc[p] = "am_get"
  /\ LET session == RedisGet(redis, SessionKey(req[p].sessionId)) IN
     IF session = Null
     THEN /\ Throw(p, "Session not found")
          /\ UNCHANGED <<loc, nextUuid>>
     ELSE /\ loc' = [loc EXCEPT ![p].usUpdates =
                           [messages |-> UpdatedMessages(session, loc[p].amMsg,
                                                         now, nextUuid)]]
          /\ nextUuid' = nextUuid + 1
          /\ pc' = [pc EXCEPT ![p] = "us_get"]
          /\ UNCHANGED <<out, res>>
  /\ UNCHANGED <<redis, now, budget, geminiKey, faults, qdrant, collections, req, calls, trace, written>>

UsGet_Merging(p) ==
  /\ pc[p] = "us_get"
  /\ LET existingSession == RedisGet(redis, SessionKey(req[p].sessionId)) IN
     IF existingSession = Null
     THEN /\ Throw(p, "Session not found")
          /\ UNCHANGED loc
     ELSE /\ loc' = [loc EXCEPT ![p].usUpdated =
                        IF req[p].op = "addMessageToSession"
                        THEN UpdatedSession(
                               existingSession,
                               [messages |->
                                  Append(existingSession.messages,
                                         loc[p].usUpdates.messages[
                                           Len(loc[p].usUpdates.messages)])],
                               now)
                        ELSE UpdatedSession(existingSession, loc[p].usUpdates, now)]
          /\ pc' = [pc EXCEPT ![p] = "us_set"]
          /\ UNCHANGED <<out, res>>
  /\ UNCHANGED <<redis, now, nextUuid, budget, geminiKey, faults, qdrant, collections, req, calls, trace,
                 written>>

\* updateSession, first await: getSession (the second read of an append).
UsGet(p) ==
  /\ pc[p] = "us_get"
  /\ LET existingSession == RedisGet(redis, SessionKey(req[p].sessionId)) IN
     IF existingSession = Null
     THEN /\ Throw(p, "Session not found")
          /\ UNCHANGED loc
     ELSE /\ loc' = [loc EXCEPT ![p].usUpdated =
                        UpdatedSession(existingSession, loc[p].usUpdates, now)]
          /\ pc' = [pc EXCEPT ![p] = "us_set"]
          /\ UNCHANGED <<out, res>>
  /\ UNCHANGED <<redis, now, nextUuid, budget, geminiKey, faults, qdrant, collections, req, calls, trace,
                 written>>

\* The cache writes on record for a key: those completed and not yet expired,
\* oldest first.
WritesFor(w, key) == SelectSeq(w, LAMBDA x : x.key = key)

EnterPipeline_NoHistory(p) ==
  /\ loc' = [loc EXCEPT ![p].sessionHistory = <<>>,
                        ![p].storedBefore =
                           IF req[p].streaming THEN <<>>
                           ELSE WritesFor(written, QueryCacheKey(req[p].message))]
  /\ pc' = [pc EXCEPT ![p] = IF req[p].streaming THEN "pqs_embed" ELSE "pq_cache"]
  /\ res' = [res EXCEPT ![p] =
               IF req[p].streaming
               THEN [@ EXCEPT !.status = 200, !.headersSent = TRUE]
               ELSE @]
  /\ out' = out
  /\ trace' = [trace EXCEPT ![p] = Append(@, "UserAppend")]

EnterPipeline_Cached(p) ==
  /\ loc' = [loc EXCEPT ![p].sessionHistory = loc[p].session.messages,
                        ![p].storedBefore =
                           WritesFor(written, QueryCacheKey(req[p].message))]
  /\ pc' = [pc EXCEPT ![p] = "pq_cache"]
  /\ res' = [res EXCEPT ![p] =
               IF req[p].streaming
               THEN [@ EXCEPT !.status = 200, !.headersSent = TRUE]
               ELSE @]
  /\ out' = out
  /\ trace' = [trace EXCEPT ![p] = Append(@, "UserAppend")]

\* const sessionHistory = session.messages || []; then the pipeline is entered:
\* res.writeHead and processQueryStreaming, or processQuery.
EnterPipeline(p) ==
  /\ loc' = [loc EXCEPT ![p].sessionHistory = loc[p].session.messages,
                        ![p].storedBefore =
                           IF req[p].streaming THEN <<>>
                           ELSE WritesFor(written, QueryCacheKey(req[p].message))]
  /\ pc' = [pc EXCEPT ![p] = IF req[p].streaming THEN "pqs_embed" ELSE "pq_cache"]
  /\ res' = [res EXCEPT ![p] =
               IF req[p].streaming
               THEN [@ EXCEPT !.status = 200, !.headersSent = TRUE]
               ELSE @]
  /\ out' = out
  /\ trace' = [trace EXCEPT ![p] = Append(@, "UserAppend")]

\* The end of the route: io.emit, and res.json unless streaming.
Respond(p) ==
  /\ pc' = [pc EXCEPT ![p] = "done"]
  /\ out' = [out EXCEPT ![p] = Returned(loc[p].ragResult)]
  /\ res' = [res EXCEPT ![p] =
               IF req[p].streaming THEN @
               ELSE [@ EXCEPT !.status = 200, !.headersSent = TRUE, !.ended = TRUE,
                              !.body = [success |-> TRUE,
                                        response |-> loc[p].ragResult.response,
                                        sources |-> loc[p].ragResult.sources,
                                        sessionId |-> req[p].sessionId,
                                        timestamp |-> loc[p].amMsg.timestamp]]]
  /\ loc' = loc
  /\ trace' = [trace EXCEPT ![p] = Append(@, "AssistantAppend")]

\* updateSession, second await: the SETEX, and the return of the stored
\* session to the caller: a direct call ends, the chat route goes on.
UsSet(p) ==
  /\ pc[p] = "us_set"
  /\ redis' = RedisSetEx(redis, SessionKey(req[p].sessionId), SessionTTL,
                         loc[p].usUpdated)
  /\ CASE loc[p].ret = "ask_rag" -> EnterPipeline(p)
       [] loc[p].ret = "ask_respond" -> Respond(p)
       [] OTHER -> /\ pc' = [pc EXCEPT ![p] = "done"]
                   /\ out' = [out EXCEPT ![p] = Returned(loc[p].usUpdated)]
                   /\ UNCHANGED <<loc, res, trace>>
  /\ calls' = [calls EXCEPT ![p].sessionSet = @ + 1]
  /\ UNCHANGED <<now, nextUuid, budget, geminiKey, faults, qdrant, collections, req, written>>

(***************************************************************************)
(* Calls of the session store's functions.                                 *)
(***************************************************************************)
StartCreateSession(p) ==
  \E s \in SessionIds, d \in Metas :
    /\ Begin(p, [NoReq EXCEPT !.op = "createSession", !.sessionId = s, !.data = d],
             "createSession", NoLoc)
    /\ UNCHANGED <<redis, now, nextUuid, geminiKey, faults, qdrant, collections, written>>

StartGetSession(p) ==
  \E s \in SessionIds :
    /\ Begin(p, [NoReq EXCEPT !.op = "getSession", !.sessionId = s],
             "getSession", NoLoc)
    /\ UNCHANGED <<redis, now, nextUuid, geminiKey, faults, qdrant, collections, written>>

StartClearSession(p) ==
  \E s \in SessionIds :
    /\ Begin(p, [NoReq EXCEPT !.op = "clearSession", !.sessionId = s],
             "clearSession", NoLoc)
    /\ UNCHANGED <<redis, now, nextUuid, geminiKey, faults, qdrant, collections, written>>

\* The caller's previous call was a createSession of this session that
\* passed no messages of its own.
AfterCreateSession(p, sessionId) ==
  /\ pc[p] = "done" /\ out[p].kind = "return"
  /\ req[p].op = "createSession" /\ req[p].sessionId = sessionId
  /\ "messages" \notin DOMAIN req[p].data

\* addMessageToSession(sessionId, message)
StartAddMessage(p) ==
  \E s \in SessionIds, m \in DirectMessages :
    /\ Begin(p, [NoReq EXCEPT !.op = "addMessageToSession", !.sessionId = s,
                              !.data = m],
             "am_get", [NoLoc EXCEPT !.amMsg = m, !.ret = "api",
                                     !.justCreated = AfterCreateSession(p, s)])
    /\ UNCHANGED <<redis, now, nextUuid, geminiKey, faults, qdrant, collections, written>>

\* updateSession(sessionId, updates)
StartUpdateSession(p) ==
  \E s \in SessionIds, u \in Updates :
    /\ Begin(p, [NoReq EXCEPT !.op = "updateSession", !.sessionId = s, !.data = u],
             "us_get", [NoLoc EXCEPT !.usUpdates = u, !.ret = "api"])
    /\ UNCHANGED <<redis, now, nextUuid, geminiKey, faults, qdrant, collections, written>>

(***************************************************************************)
(* Time.                                                                   *)
(***************************************************************************)
\* Where a process is between requests or waits for a gateway.
WaitingPcs ==
  {"idle", "done", "pq_embed", "pq_search", "pq_generate",
   "pqs_embed", "pqs_search", "pqs_generate"}

RECURSIVE AgeWrites(_, _)
\* The record of the cache writes ages as the keys do.
AgeWrites(w, d) ==
  IF w = <<>> THEN <<>>
  ELSE IF Head(w).left > d
    THEN <<[Head(w) EXCEPT !.left = @ - d]>> \o AgeWrites(Tail(w), d)
    ELSE AgeWrites(Tail(w), d)

Tick ==
  /\ budget.ticks > 0
  /\ budget' = [budget EXCEPT !.ticks = @ - 1]
  /\ \A p \in Procs : pc[p] \in WaitingPcs
  /\ now' = now + TickSeconds
  /\ redis' = RedisAge(redis, TickSeconds)
  /\ written' = AgeWrites(written, TickSeconds)
  /\ UNCHANGED <<nextUuid, geminiKey, faults, qdrant, collections, pc, req, loc, out, res, calls, trace>>

(***************************************************************************)
(* The session store with one call at a time.                              *)
(***************************************************************************)
InitStore == InitIn({TRUE}, {FALSE}, MaxStoreOps, MaxStoreTime)

NextStore ==
  \/ StartCreateSession("p1")
  \/ StartGetSession("p1")
  \/ StartClearSession("p1")
  \/ StartAddMessage("p1")
  \/ StartUpdateSession("p1")
  \/ CreateSession("p1")
  \/ GetSession("p1")
  \/ ClearSession("p1")
  \/ AmGet("p1")
  \/ UsGet("p1")
  \/ UsSet("p1")
  \/ Tick

SpecStore == InitStore /\ [][NextStore]_vars

\* The same calls over a time in which a session's TTL runs out.
InitLife == InitIn({TRUE}, {FALSE}, MaxLifeOps, MaxLifeTime)

SpecLife == InitLife /\ [][NextStore]_vars

(***************************************************************************)
(* The session store under concurrent callers: sessions are created and    *)
(* messages appended by requests that overlap.                             *)
(***************************************************************************)
InitAppendRace == InitIn({TRUE}, {FALSE}, MaxAppendOps, MaxAppendTime)

NextAppendRace ==
  \/ \E p \in Procs : StartCreateSession(p)
  \/ \E p \in Procs : StartAddMessage(p)
  \/ \E p \in Procs : CreateSession(p)
  \/ \E p \in Procs : AmGet(p)
  \/ \E p \in Procs : UsGet(p)
  \/ \E p \in Procs : UsSet(p)
  \/ Tick

SpecAppendRace == InitAppendRace /\ [][NextAppendRace]_vars

(***************************************************************************)
(* The gateways.                                                           *)
(***************************************************************************)
RECURSIVE HashLimbs(_, _, _)
\* createFallbackEmbedding's hash: a = (a << 5) - a + code, kept to 32 bits by
\* a & a: 31 * a + code modulo 2^32, computed on the two 16-bit halves of a.
HashLimbs(hi, lo, u) ==
  IF u = <<>> THEN <<hi, lo>>
  ELSE LET low == 31 * lo + Head(u) IN
       HashLimbs((31 * hi + (low \div 65536)) % 65536, low % 65536, Tail(u))

\* The hash as the signed 32-bit integer JavaScript holds.
HashOf(u) ==
  LET h == HashLimbs(0, 0, u) IN
  IF h[1] >= 32768 THEN (h[1] - 65536) * 65536 + h[2] ELSE h[1] * 65536 + h[2]

CreateFallbackEmbedding_Salted(text) ==
  [kind |-> "fallback",
   hash |-> HashOf(CodeUnits(text))
              + Cardinality({q \in Procs : pc[q] \notin {"idle", "done"}}),
   dim |-> 768]

\* The fallback vector is Math.sin(hash + i) * 0.1 for i < 768: a function of
\* the hash alone.
CreateFallbackEmbedding(text) ==
  [kind |-> "fallback", hash |-> HashOf(CodeUnits(text)), dim |-> 768]

CreateEmbedding_Failing(text, provider) ==
  IF provider = "ok" THEN [kind |-> "provider", hash |-> 0, dim |-> 768]
  ELSE IF provider = "unconfigured" THEN CreateFallbackEmbedding(text)
  ELSE Null

\* createEmbedding: the provider's vector, or the fallback vector when no
\* client is configured or the provider call fails.
CreateEmbedding(text, provider) ==
  IF provider = "ok" THEN [kind |-> "provider", hash |-> 0, dim |-> 768]
  ELSE CreateFallbackEmbedding(text)

EmbeddingProviderOutcomes == {"ok", "error", "unconfigured"}

\* Points of the vector index that a search may return, best first.
Point1 ==
  [id |-> "d1", score |-> 91,
   payload |-> [title |-> "Market rallies", content |-> "Stocks rose",
                url |-> "http://a/1", publishedAt |-> "2024-01-01",
                source |-> "wire", summary |-> ""]]
Point2 ==
  [id |-> "d2", score |-> 78,
   payload |-> [title |-> "Rates held", content |-> "The bank held rates",
                url |-> "http://a/2", publishedAt |-> "2024-01-02",
                source |-> "desk", summary |-> ""]]

RECURSIVE MapHits(_)
\* searchSimilar: response.data.result.map(...)
MapHits(result) ==
  IF result = <<>> THEN <<>>
  ELSE LET r == Head(result) IN
       <<[id |-> r.id, score |-> r.score, title |-> r.payload.title,
          content |-> r.payload.content, url |-> r.payload.url,
          publishedAt |-> r.payload.publishedAt, source |-> r.payload.source,
          summary |-> r.payload.summary]>> \o MapHits(Tail(result))

\* A point of the index with its score against the query vector.  Scores
\* are in hundredths: 70 is the score 0.7.
ScoredPoint(id, score) ==
  [id |-> id, score |-> score,
   payload |-> [title |-> "Article " \o id, content |-> "Text of " \o id,
                url |-> "http://a/" \o id, publishedAt |-> "2024-01-03",
                source |-> "wire", summary |-> ""]]
Point3 == ScoredPoint("d3", 65)

\* What the index may hold when the pipeline searches it: nothing, or two
\* points that score above 0.7 and one that scores below.
IndexContents == {{}, {Point1, Point2, Point3}}
\* The same, and a collection of seven points of which six score above 0.7.
LargeIndexContents ==
  IndexContents
    \cup {{Point1, Point2, Point3, ScoredPoint("d4", 88), ScoredPoint("d5", 84),
           ScoredPoint("d6", 81), ScoredPoint("d7", 74)}}

SearchLimit == 5
ScoreFloor == 70

SearchPayload_NoThreshold(queryEmbedding, limit, scoreThreshold) ==
  [vector |-> queryEmbedding, limit |-> limit, with_payload |-> TRUE,
   score_threshold |-> 0]

\* searchSimilar: the payload of the search request.
SearchPayload(queryEmbedding, limit, scoreThreshold) ==
  [vector |-> queryEmbedding, limit |-> limit, with_payload |-> TRUE,
   score_threshold |-> scoreThreshold]

RECURSIVE Ranked(_)
\* Points in the order of their scores, the highest first.
Ranked(points) ==
  IF points = {} THEN <<>>
  ELSE LET best == CHOOSE x \in points : \A y \in points : y.score <= x.score IN
       <<best>> \o Ranked(points \ {best})

\* The index's answer to POST /collections/news_articles/points/search on a
\* collection: of the points whose score is at least payload.score_threshold,
\* the payload.limit best, the best first.
QdrantSearch(points, payload) ==
  LET hits == Ranked({x \in points : x.score >= payload.score_threshold}) IN
  IF Len(hits) <= payload.limit THEN hits ELSE SubSeq(hits, 1, payload.limit)

\* What the vector index answers to one search request, whatever it holds of
\* contents: a ranked list of points, or an error.
SearchOutcomes(contents, payload, faulty) ==
  {Returned([result |-> QdrantSearch(c, payload)]) : c \in contents}
    \cup (IF faulty THEN {Thrown("Request failed with status code 503")} ELSE {})

\* generateFallbackResponse's canned texts, each as its words
\* (response.split(" ")).
CannedResponses ==
  <<
     <<"I'm", "currently", "running", "in", "demo", "mode.", "To", "get",
       "AI-powered", "responses,", "please", "configure", "your", "Gemini",
       "API", "key", "in", "the", ".env", "file.">>,
     <<"This", "is", "a", "test", "response.", "The", "chatbot", "is",
       "working,", "but", "you", "need", "to", "add", "your", "Gemini",
       "API", "key", "for", "full", "functionality.">>,
     <<"Demo", "mode", "active!", "Add", "your", "API", "keys", "to",
       "enable", "AI-powered", "news", "analysis", "and", "responses.">>,
     <<"The", "system", "is", "running", "successfully.", "Configure",
       "your", "Gemini", "API", "key", "to", "unlock", "AI",
       "capabilities.">>
  >>

RECURSIVE JoinWords(_)
JoinWords(w) ==
  IF w = <<>> THEN ""
  ELSE IF Len(w) = 1 THEN w[1]
  ELSE w[1] \o " " \o JoinWords(Tail(w))

GenerateFallbackResponse_NoSources(context, i) ==
  [response |-> JoinWords(CannedResponses[i]), sources |-> <<>>]

\* generateFallbackResponse(query, context), the random index given.
GenerateFallbackResponse(context, i) ==
  [response |-> JoinWords(CannedResponses[i]), sources |-> MapSources(context)]

\* The number of messages of the session history that go into the prompt.
HistoryWindow == 5

SliceLast_First(a, n) == IF Len(a) <= n THEN a ELSE SubSeq(a, 1, n)

\* a.slice(-n), for n > 0
SliceLast(a, n) == IF Len(a) <= n THEN a ELSE SubSeq(a, Len(a) - n + 1, Len(a))

\* (msg) => `${msg.role === "user" ? "User" : "Assistant"}: ${msg.content}`
HistoryLine(msg) ==
  (IF msg.role = "user" THEN "User" ELSE "Assistant") \o ": " \o msg.content

RECURSIVE JoinLines(_)
\* lines.join("\n")
JoinLines(lines) ==
  IF lines = <<>> THEN ""
  ELSE IF Len(lines) = 1 THEN lines[1]
  ELSE lines[1] \o "\n" \o JoinLines(Tail(lines))

\* historyText: sessionHistory.slice(-5).map(...).join("\n")
HistoryText(sessionHistory) ==
  LET recent == SliceLast(sessionHistory, HistoryWindow) IN
  JoinLines([i \in 1..Len(recent) |-> HistoryLine(recent[i])])

\* The locals of process p once generateResponse or generateStreamingResponse
\* has been called and has built its prompt, which it does before its first
\* await; without a client no prompt is built.
Prompted(p, key) ==
  [loc EXCEPT ![p].historyText =
     IF key THEN HistoryText(loc[p].sessionHistory) ELSE @]

\* What the generation provider answers: a text, an API error with a message,
\* or a failed request.
ProviderAnswers(faulty) ==
  {[kind |-> "text", text |-> t] : t \in LiveTexts}
    \cup (IF faulty THEN {[kind |-> "apiError", text |-> "quota exceeded"],
                         [kind |-> "failure", text |-> ""]}
          ELSE {})

\* generateResponse(query, context, sessionHistory): its outcomes.
GenerateResponse(context, key, faulty) ==
  IF ~key
  THEN {Returned(GenerateFallbackResponse(context, i)) :
          i \in 1..Len(CannedResponses)}
  ELSE {CASE a.kind = "text" ->
               Returned([response |-> a.text, sources |-> MapSources(context)])
          [] a.kind = "apiError" -> Thrown("Gemini API Error: " \o a.text)
          [] OTHER -> Thrown("Failed to generate response from Gemini")
        : a \in ProviderAnswers(faulty)}

(***************************************************************************)
(* The query-result cache (services/redis).                                *)
(***************************************************************************)
DefaultCacheTTL == 1800

\* setCache(key, value, ttl): ttl 0 stands for a missing ttl.
SetCache(store, key, value, ttl) ==
  RedisSetEx(store, CacheKey(key), IF ttl # 0 THEN ttl ELSE DefaultCacheTTL, value)

GetCache_BareKey(store, key) == RedisGet(store, key)

\* setCache(key, value, ttl) with a ttl, for an array of objects none of whose
\* properties is undefined: JSON.stringify writes all of it.
SetCacheList(store, key, list, ttl) ==
  [k \in (DOMAIN store) \cup {CacheKey(key)} |->
     IF k = CacheKey(key) THEN [val |-> list, ttl |-> ttl] ELSE store[k]]

\* getCache(key)
GetCache(store, key) == RedisGet(store, CacheKey(key))

(***************************************************************************)
(* processQuery (services/ragService).                                     *)
(***************************************************************************)
NoDocsNote == "No relevant news articles found, but here's an AI-generated response"

FinalResult_Cached(result, query, sessionId, t, noDocs) ==
  Spread(result, [query |-> query, sessionId |-> sessionId, timestamp |-> t,
                  cached |-> TRUE])

\* The finalResult of processQuery, on the empty-context path and otherwise.
FinalResult(result, query, sessionId, t, noDocs) ==
  IF noDocs
  THEN Spread(result, [query |-> query, sessionId |-> sessionId, timestamp |-> t,
                       cached |-> FALSE, sources |-> result.sources,
                       note |-> NoDocsNote])
  ELSE Spread(result, [query |-> query, sessionId |-> sessionId, timestamp |-> t,
                       cached |-> FALSE])

\* processQuery has returned result.  In the chat route the assistant message
\* is built and addMessageToSession is entered; a direct call ends.
AfterPipeline(p, result, steps) ==
  /\ trace' = [trace EXCEPT ![p] = @ \o steps]
  /\ IF req[p].op = "ask"
     THEN /\ loc' = [loc EXCEPT ![p].ragResult = result,
                                ![p].amMsg = [role |-> "assistant",
                                              content |-> result.response,
                                              sources |-> result.sources,
                                              timestamp |-> now],
                                ![p].ret = "ask_respond"]
          /\ pc' = [pc EXCEPT ![p] = "am_get"]
     ELSE /\ loc' = [loc EXCEPT ![p].ragResult = result]
          /\ pc' = [pc EXCEPT ![p] = "done"]

\* An error thrown inside the pipeline: processQuery rethrows it to the route.
PipelineThrow(p, msg, steps) ==
  /\ Throw(p, msg)
  /\ loc' = [loc EXCEPT ![p].pqError = msg]
  /\ trace' = [trace EXCEPT ![p] = @ \o steps]

PqCache_Refreshing(p) ==
  /\ pc[p] = "pq_cache"
  /\ LET cachedResult == GetCache(redis, QueryCacheKey(req[p].message)) IN
     IF cachedResult # Null
     THEN /\ AfterPipeline(p, cachedResult, <<"CacheCheck", "Done">>)
          /\ redis' = SetCache(redis, QueryCacheKey(req[p].message), cachedResult,
                               QueryCacheTTL)
          /\ out' = [out EXCEPT ![p] = IF req[p].op = "ask" THEN @
                                       ELSE Returned(cachedResult)]
          /\ res' = res
     ELSE /\ pc' = [pc EXCEPT ![p] = "pq_embed"]
          /\ trace' = [trace EXCEPT ![p] = Append(@, "CacheCheck")]
          /\ UNCHANGED <<redis, loc, out, res>>
  /\ UNCHANGED <<now, nextUuid, budget, geminiKey, faults, qdrant, collections, req, calls, written>>

\* Whether a Redis command of the pipeline succeeds.
StoreAnswers(faulty) == IF faulty THEN BOOLEAN ELSE {TRUE}

\* await getCache(cacheKey): a hit returns the cached result, a miss goes on
\* to the embedding.
PqCache(p) ==
  /\ pc[p] = "pq_cache"
  /\ \E ok \in StoreAnswers(faults) :
       IF ~ok
       THEN PipelineThrow(p, "Redis: connection lost", <<"CacheCheck">>)
       ELSE LET cachedResult == GetCache(redis, QueryCacheKey(req[p].message)) IN
            IF cachedResult # Null
            THEN /\ AfterPipeline(p, cachedResult, <<"CacheCheck", "Done">>)
                 /\ out' = [out EXCEPT ![p] = IF req[p].op = "ask" THEN @
                                              ELSE Returned(cachedResult)]
                 /\ res' = res
            ELSE /\ pc' = [pc EXCEPT ![p] = "pq_embed"]
                 /\ trace' = [trace EXCEPT ![p] = Append(@, "CacheCheck")]
                 /\ UNCHANGED <<loc, out, res>>
  /\ UNCHANGED <<redis, now, nextUuid, budget, geminiKey, faults, qdrant, collections, req, calls, written>>

PqEmbed_Twice(p) ==
  /\ pc[p] = "pq_embed"
  /\ \E provider \in EmbeddingProviderOutcomes :
       loc' = [loc EXCEPT ![p].queryEmbedding = CreateEmbedding(req[p].message, provider)]
  /\ calls' = [calls EXCEPT ![p].embed = @ + 2]
  /\ pc' = [pc EXCEPT ![p] = "pq_search"]
  /\ trace' = [trace EXCEPT ![p] = Append(@, "Embed")]
  /\ UNCHANGED <<redis, now, nextUuid, budget, geminiKey, faults, qdrant, collections, req, out, res, written>>

\* await createQueryEmbedding(query)
PqEmbed(p) ==
  /\ pc[p] = "pq_embed"
  /\ \E provider \in EmbeddingProviderOutcomes :
       loc' = [loc EXCEPT ![p].queryEmbedding = CreateEmbedding(req[p].message, provider)]
  /\ calls' = [calls EXCEPT ![p].embed = @ + 1]
  /\ pc' = [pc EXCEPT ![p] = "pq_search"]
  /\ trace' = [trace EXCEPT ![p] = Append(@, "Embed")]
  /\ UNCHANGED <<redis, now, nextUuid, budget, geminiKey, faults, qdrant, collections, req, out, res, written>>

PqSearch_Retrying(p) ==
  /\ pc[p] = "pq_search"
  /\ calls' = [calls EXCEPT ![p].search = @ + 1,
                            ![p].searchArgs = [limit |-> SearchLimit,
                                               scoreThreshold |-> ScoreFloor]]
  /\ \E o \in SearchOutcomes(IndexContents,
                              SearchPayload(loc[p].queryEmbedding, SearchLimit,
                                            ScoreFloor),
                              faults) :
       IF o.kind = "throw"
       THEN IF calls[p].search = 0
            THEN UNCHANGED <<pc, loc, out, res, trace>>
            ELSE PipelineThrow(p, o.error, <<"Retrieve">>)
       ELSE /\ loc' = [Prompted(p, geminiKey) EXCEPT
                           ![p].similarDocs = MapHits(o.value.result),
                           ![p].queryEmbedding = Null]
            /\ pc' = [pc EXCEPT ![p] = "pq_generate"]
            /\ trace' = [trace EXCEPT ![p] = Append(@, "Retrieve")]
            /\ UNCHANGED <<out, res>>
  /\ UNCHANGED <<redis, now, nextUuid, budget, geminiKey, faults, qdrant, collections, req, written>>

\* await searchSimilar(queryEmbedding, 5, 0.7), and the call of
\* generateResponse up to its request to the provider.
PqSearch(p) ==
  /\ pc[p] = "pq_search"
  /\ calls' = [calls EXCEPT ![p].search = @ + 1,
                            ![p].searchArgs = [limit |-> SearchLimit,
                                               scoreThreshold |-> ScoreFloor]]
  /\ \E o \in SearchOutcomes(IndexContents,
                              SearchPayload(loc[p].queryEmbedding, SearchLimit,
                                            ScoreFloor),
                              faults) :
       IF o.kind = "throw"
       THEN PipelineThrow(p, o.error, <<"Retrieve">>)
       ELSE /\ loc' = [Prompted(p, geminiKey) EXCEPT
                           ![p].similarDocs = MapHits(o.value.result),
                           ![p].queryEmbedding = Null]
            /\ pc' = [pc EXCEPT ![p] = "pq_generate"]
            /\ trace' = [trace EXCEPT ![p] = Append(@, "Retrieve")]
            /\ UNCHANGED <<out, res>>
  /\ UNCHANGED <<redis, now, nextUuid, budget, geminiKey, faults, qdrant, collections, req, written>>

\* await generateResponse(query, similarDocs or [], sessionHistory), and the
\* building of finalResult.
PqGenerate(p) ==
  /\ pc[p] = "pq_generate"
  /\ calls' = [calls EXCEPT ![p].generate = @ + 1]
  /\ \E o \in GenerateResponse(loc[p].similarDocs, geminiKey, faults) :
       IF o.kind = "throw"
       THEN PipelineThrow(p, o.error, <<"Generate">>)
       ELSE /\ loc' = [loc EXCEPT ![p].finalResult =
                          FinalResult(o.value, req[p].message, req[p].sessionId,
                                      now, loc[p].similarDocs = <<>>)]
            /\ pc' = [pc EXCEPT ![p] = "pq_setcache"]
            /\ trace' = [trace EXCEPT ![p] = Append(@, "Generate")]
            /\ UNCHANGED <<out, res>>
  /\ UNCHANGED <<redis, now, nextUuid, budget, geminiKey, faults, qdrant, collections, req, written>>

PqSetCache_FirstWins(p) ==
  /\ pc[p] = "pq_setcache"
  /\ redis' = IF CacheKey(QueryCacheKey(req[p].message)) \in DOMAIN redis
              THEN redis
              ELSE SetCache(redis, QueryCacheKey(req[p].message),
                            loc[p].finalResult, QueryCacheTTL)
  /\ written' = Append(written,
                       [key |-> QueryCacheKey(req[p].message),
                        val |-> loc[p].finalResult,
                        left |-> QueryCacheTTL])
  /\ AfterPipeline(p, loc[p].finalResult, <<"Persist", "Done">>)
  /\ out' = [out EXCEPT ![p] = IF req[p].op = "ask" THEN @
                               ELSE Returned(loc[p].finalResult)]
  /\ res' = res
  /\ calls' = [calls EXCEPT ![p].cacheSet = @ + 1]
  /\ UNCHANGED <<now, nextUuid, budget, geminiKey, faults, qdrant, collections, req>>

\* await setCache(cacheKey, finalResult, 1800), and the return of finalResult.
PqSetCache(p) ==
  /\ pc[p] = "pq_setcache"
  /\ \E ok \in StoreAnswers(faults) :
       IF ~ok
       THEN /\ PipelineThrow(p, "Redis: connection lost", <<"Persist">>)
            /\ UNCHANGED <<redis, written, calls>>
       ELSE /\ redis' = SetCache(redis, QueryCacheKey(req[p].message),
                                 loc[p].finalResult, QueryCacheTTL)
            /\ written' = Append(written,
                                  [key |-> QueryCacheKey(req[p].message),
                                   val |-> loc[p].finalResult,
                                   left |-> QueryCacheTTL])
            /\ AfterPipeline(p, loc[p].finalResult, <<"Persist", "Done">>)
            /\ out' = [out EXCEPT ![p] = IF req[p].op = "ask" THEN @
                                         ELSE Returned(loc[p].finalResult)]
            /\ res' = res
            /\ calls' = [calls EXCEPT ![p].cacheSet = @ + 1]
  /\ UNCHANGED <<now, nextUuid, budget, geminiKey, faults, qdrant, collections, req>>

(***************************************************************************)
(* processQueryStreaming and generateStreamingResponse.                    *)
(***************************************************************************)
NoDocsText ==
  "I couldn't find any relevant news articles to answer your question. "
    \o "Please try rephrasing your query or ask about a different topic."

\* The fragment sequences the live provider may stream.
LiveStreams == { <<"answer ", "A">>, <<"answer B">> }

RECURSIVE Concat(_)
Concat(fragments) ==
  IF fragments = <<>> THEN "" ELSE Head(fragments) \o Concat(Tail(fragments))

\* The fallback's simulated stream: onChunk(words[i] + " ") for every word of
\* response.split(" ").
WordChunks(words) == [i \in 1..Len(words) |-> words[i] \o " "]

\* generateStreamingResponse: its outcomes, each with the chunks it handed to
\* onChunk.  Without a client the fallback response is sent word by word; with
\* one, the provider's fragments are forwarded and summed up, a failed request
\* throws, and a stream that breaks rejects after the fragments it delivered.
GenerateStreamingResponse(context, key, faulty) ==
  IF ~key
  THEN {[outcome |-> Returned(GenerateFallbackResponse(context, i)),
         chunks |-> WordChunks(CannedResponses[i])] :
          i \in 1..Len(CannedResponses)}
  ELSE {[outcome |-> Returned([response |-> Concat(f),
                               sources |-> MapSources(context)]),
         chunks |-> f] : f \in LiveStreams}
       \cup (IF faulty
             THEN {[outcome |->
                      Thrown("Failed to generate streaming response from Gemini"),
                    chunks |-> <<>>],
                   [outcome |-> Thrown("stream aborted"), chunks |-> <<"answer ">>]}
             ELSE {})

\* The chat route after processQueryStreaming has returned: res.end(), then as
\* after processQuery.
AfterStreaming(p, result, chunks, steps) ==
  /\ AfterPipeline(p, result, steps)
  /\ res' = [res EXCEPT ![p].chunks = @ \o chunks, ![p].ended = TRUE]
  /\ out' = out

PqsEmbed(p) ==
  /\ pc[p] = "pqs_embed"
  /\ \E provider \in EmbeddingProviderOutcomes :
       loc' = [loc EXCEPT ![p].queryEmbedding = CreateEmbedding(req[p].message, provider)]
  /\ calls' = [calls EXCEPT ![p].embed = @ + 1]
  /\ pc' = [pc EXCEPT ![p] = "pqs_search"]
  /\ trace' = [trace EXCEPT ![p] = Append(@, "Embed")]
  /\ UNCHANGED <<redis, now, nextUuid, budget, geminiKey, faults, qdrant, collections, req, out, res, written>>

\* await searchSimilar(queryEmbedding, 5, 0.7); with no documents the fixed
\* text is sent as one chunk and returned, otherwise
\* generateStreamingResponse is called and runs up to its request.
PqsSearch(p) ==
  /\ pc[p] = "pqs_search"
  /\ calls' = [calls EXCEPT ![p].search = @ + 1,
                            ![p].searchArgs = [limit |-> SearchLimit,
                                               scoreThreshold |-> ScoreFloor]]
  /\ \E o \in SearchOutcomes(IndexContents,
                              SearchPayload(loc[p].queryEmbedding, SearchLimit,
                                            ScoreFloor),
                              faults) :
       IF o.kind = "throw"
       THEN PipelineThrow(p, o.error, <<"Retrieve">>)
       ELSE IF o.value.result = <<>>
       THEN AfterStreaming(p, [response |-> NoDocsText, sources |-> <<>>,
                               cached |-> FALSE],
                           <<NoDocsText>>, <<"Retrieve", "Done">>)
       ELSE /\ loc' = [Prompted(p, geminiKey) EXCEPT
                           ![p].similarDocs = MapHits(o.value.result),
                           ![p].queryEmbedding = Null]
            /\ pc' = [pc EXCEPT ![p] = "pqs_generate"]
            /\ trace' = [trace EXCEPT ![p] = Append(@, "Retrieve")]
            /\ UNCHANGED <<out, res>>
  /\ UNCHANGED <<redis, now, nextUuid, budget, geminiKey, faults, qdrant, collections, req, written>>

\* await generateStreamingResponse(query, similarDocs, sessionHistory, onChunk)
PqsGenerate(p) ==
  /\ pc[p] = "pqs_generate"
  /\ calls' = [calls EXCEPT ![p].generate = @ + 1]
  /\ \E g \in GenerateStreamingResponse(loc[p].similarDocs, geminiKey, faults) :
       IF g.outcome.kind = "throw"
       THEN /\ pc' = [pc EXCEPT ![p] = "done"]
            /\ out' = [out EXCEPT ![p] = g.outcome]
            /\ res' = [res EXCEPT ![p].chunks = @ \o g.chunks]
            /\ loc' = [loc EXCEPT ![p].pqError = g.outcome.error]
            /\ trace' = [trace EXCEPT ![p] = Append(@, "Generate")]
       ELSE AfterStreaming(p,
              Spread(g.outcome.value,
                     [query |-> req[p].message, sessionId |-> req[p].sessionId,
                      timestamp |-> now, cached |-> FALSE]),
              g.chunks, <<"Generate", "Done">>)
  /\ UNCHANGED <<redis, now, nextUuid, budget, geminiKey, faults, qdrant, collections, req, written>>

(***************************************************************************)
(* The chat route, POST /api/chat/message.                                 *)
(***************************************************************************)
WhiteSpace ==
  {9, 10, 11, 12, 13, 32, 160, 5760, 8232, 8233, 8239, 8287, 12288, 65279}
    \cup (8192..8202)

RECURSIVE TrimStart(_)
TrimStart(u) ==
  IF u # <<>> /\ Head(u) \in WhiteSpace THEN TrimStart(Tail(u)) ELSE u

RECURSIVE TrimEnd(_)
TrimEnd(u) ==
  IF u # <<>> /\ u[Len(u)] \in WhiteSpace
  THEN TrimEnd(SubSeq(u, 1, Len(u) - 1)) ELSE u

\* String.prototype.trim
Trim(u) == TrimEnd(TrimStart(u))

\* The message values that are not strings: a missing message, which is
\* undefined, and a number other than 0.
NonStrings == {Undefined, "<number>"}
\* !message
Falsy(message) == message \in {"", Undefined}

ValidateQuery_Untrimmed(query) ==
  IF Falsy(query) \/ query \in NonStrings
  THEN [valid |-> FALSE, error |-> "Query must be a non-empty string"]
  ELSE IF Len(CodeUnits(query)) < MinQueryLength
    THEN [valid |-> FALSE, error |-> "Query must be at least 3 characters long"]
    ELSE IF Len(CodeUnits(query)) > MaxQueryLength
    THEN [valid |-> FALSE, error |-> "Query must be less than 500 characters"]
    ELSE [valid |-> TRUE, error |-> ""]

\* validateQuery(query)
ValidateQuery(query) ==
  IF Falsy(query) \/ query \in NonStrings
  THEN [valid |-> FALSE, error |-> "Query must be a non-empty string"]
  ELSE LET trimmedQuery == Trim(CodeUnits(query)) IN
    IF Len(trimmedQuery) < MinQueryLength
    THEN [valid |-> FALSE, error |-> "Query must be at least 3 characters long"]
    ELSE IF Len(trimmedQuery) > MaxQueryLength
    THEN [valid |-> FALSE, error |-> "Query must be less than 500 characters"]
    ELSE [valid |-> TRUE, error |-> ""]

\* The message texts a request may carry: the query and one that is too short.
MessageTexts == Queries \cup {"hi"}

BadRequest(msg) ==
  [NoRes EXCEPT !.status = 400, !.headersSent = TRUE, !.ended = TRUE,
                !.body = [success |-> FALSE, error |-> msg]]

\* The two messages that the caller's previous request, a chat turn in
\* session sessionId that succeeded, has stored and that are still stored;
\* none after any other request.
PrevTurn(p, sessionId) ==
  LET key == SessionKey(sessionId) IN
  IF /\ pc[p] = "done" /\ req[p].op = "ask" /\ out[p].kind = "return"
     /\ req[p].sessionId = sessionId
     /\ key \in DOMAIN redis
     /\ Len(redis[key].val.messages) >= 2
  THEN SubSeq(redis[key].val.messages, Len(redis[key].val.messages) - 1,
              Len(redis[key].val.messages))
  ELSE <<>>

\* The request arrives: the synchronous checks, up to await getSession.
AskStartWith(p, sessionIds, texts, modes) ==
  \E s \in sessionIds, m \in texts, streaming \in modes :
    /\ Begin(p, [NoReq EXCEPT !.op = "ask", !.sessionId = s, !.message = m,
                              !.streaming = streaming],
             IF s = "" \/ Falsy(m) \/ ~ValidateQuery(m).valid
             THEN "bad_request" ELSE "ask_getSession",
             [NoLoc EXCEPT !.prevTurn = PrevTurn(p, s)])
    /\ UNCHANGED <<redis, now, nextUuid, geminiKey, faults, qdrant, collections, written>>

\* return res.status(400).json(...)
AskReject(p) ==
  /\ pc[p] = "bad_request"
  /\ res' = [res EXCEPT ![p] =
               IF req[p].sessionId = "" \/ Falsy(req[p].message)
               THEN BadRequest("Session ID and message are required")
               ELSE BadRequest(ValidateQuery(req[p].message).error)]
  /\ pc' = [pc EXCEPT ![p] = "done"]
  /\ UNCHANGED <<redis, now, nextUuid, budget, geminiKey, faults, qdrant, collections, req, loc, out,
                 calls, trace, written>>

AppendUserMessage_Deferred(p, session) ==
  /\ loc' = [loc EXCEPT ![p].session = session,
                        ![p].sessionHistory = session.messages]
  /\ pc' = [pc EXCEPT ![p] = "pq_cache"]

\* The user message of the turn, and the entry into addMessageToSession.
AppendUserMessage(p, session) ==
  /\ loc' = [loc EXCEPT ![p].session = session,
                        ![p].amMsg = [role |-> "user", content |-> req[p].message,
                                      timestamp |-> now],
                        ![p].ret = "ask_rag"]
  /\ pc' = [pc EXCEPT ![p] = "am_get"]

AskGetSession_NoCreate(p) ==
  /\ pc[p] = "ask_getSession"
  /\ LET session == RedisGet(redis, SessionKey(req[p].sessionId)) IN
     IF session = Null
     THEN /\ Throw(p, "Session not found")
          /\ loc' = loc
     ELSE /\ AppendUserMessage(p, session)
          /\ UNCHANGED <<out, res>>
  /\ UNCHANGED <<redis, now, nextUuid, budget, geminiKey, faults, qdrant, collections, req,
                 calls, trace, written>>

\* let session = await getSession(sessionId)
AskGetSession(p) ==
  /\ pc[p] = "ask_getSession"
  /\ LET session == RedisGet(redis, SessionKey(req[p].sessionId)) IN
     IF session = Null
     THEN /\ pc' = [pc EXCEPT ![p] = "ask_createSession"]
          /\ loc' = loc
     ELSE AppendUserMessage(p, session)
  /\ UNCHANGED <<redis, now, nextUuid, budget, geminiKey, faults, qdrant, collections, req, out, res,
                 calls, trace, written>>

AskCreateSession_IfAbsent(p) ==
  /\ pc[p] = "ask_createSession"
  /\ LET stored == RedisGet(redis, SessionKey(req[p].sessionId))
         sessionData == IF stored = Null
                        THEN NewSessionData(req[p].sessionId, NoData, now)
                        ELSE stored IN
     /\ redis' = IF stored = Null
                 THEN RedisSetEx(redis, SessionKey(req[p].sessionId), SessionTTL,
                                 sessionData)
                 ELSE redis
     /\ AppendUserMessage(p, sessionData)
  /\ calls' = [calls EXCEPT ![p].sessionSet = @ + 1]
  /\ UNCHANGED <<now, nextUuid, budget, geminiKey, faults, qdrant, collections, req, out, res, trace,
                 written>>

\* session = await createSession(sessionId)
AskCreateSession(p) ==
  /\ pc[p] = "ask_createSession"
  /\ LET sessionData == NewSessionData(req[p].sessionId, NoData, now) IN
     /\ redis' = RedisSetEx(redis, SessionKey(req[p].sessionId), SessionTTL,
                            sessionData)
     /\ AppendUserMessage(p, sessionData)
  /\ calls' = [calls EXCEPT ![p].sessionSet = @ + 1]
  /\ UNCHANGED <<now, nextUuid, budget, geminiKey, faults, qdrant, collections, req, out, res, trace,
                 written>>

(***************************************************************************)
(* The service with one request at a time: chat turns, streamed or not, in *)
(* two sessions, the clearing of a session, and the passing of time.       *)
(***************************************************************************)
Serial == {"p1"}

AskStart(p) == AskStartWith(p, SessionIds, MessageTexts, BOOLEAN)

Next ==
  \/ \E p \in Serial : AskStart(p)
  \/ \E p \in Serial : AskReject(p)
  \/ \E p \in Serial : AskGetSession(p)
  \/ \E p \in Serial : AskCreateSession(p)
  \/ \E p \in Serial : AmGet(p)
  \/ \E p \in Serial : UsGet(p)
  \/ \E p \in Serial : UsSet(p)
  \/ \E p \in Serial : PqCache(p)
  \/ \E p \in Serial : PqEmbed(p)
  \/ \E p \in Serial : PqSearch(p)
  \/ \E p \in Serial : PqGenerate(p)
  \/ \E p \in Serial : PqSetCache(p)
  \/ \E p \in Serial : PqsEmbed(p)
  \/ \E p \in Serial : PqsSearch(p)
  \/ \E p \in Serial : PqsGenerate(p)
  \/ \E p \in Serial : StartClearSession(p)
  \/ \E p \in Serial : ClearSession(p)
  \/ Tick

Spec == Init /\ [][Next]_vars

(***************************************************************************)
(* The service, one request at a time, with a session on record that holds *)
(* the messages of earlier turns.                                          *)
(***************************************************************************)
\* The i-th message of the conversation on record, as the chat route's two
\* appends store them: user messages and assistant messages in turn.
PastMessage(i) ==
  IF i % 2 = 1
  THEN [role |-> "user", content |-> "m" \o ToString(i), timestamp |-> 0, id |-> i]
  ELSE [role |-> "assistant", content |-> "m" \o ToString(i), sources |-> <<>>,
        timestamp |-> 0, id |-> i]

Conversation(n) == [i \in 1..n |-> PastMessage(i)]

PastSessionId == "s1"

\* The session after n appends, as createSession and updateSession store it.
PastSession(n) ==
  IF n = 0 THEN NewSessionData(PastSessionId, NoData, 0)
  ELSE UpdatedSession(NewSessionData(PastSessionId, NoData, 0),
                      [messages |-> Conversation(n)], 0)

InitHistory ==
  /\ \E n \in 0..MaxHistory :
       /\ redis = RedisSetEx(<<>>, SessionKey(PastSessionId), SessionTTL,
                             PastSession(n))
       /\ nextUuid = n + 1
  /\ now = 0
  /\ budget = [ops |-> MaxHistoryOps, ticks |-> MaxHistoryTime]
  /\ geminiKey \in BOOLEAN
  /\ faults = FALSE
  /\ qdrant = <<>>
  /\ collections = Created(<<>>)
  /\ pc = [p \in Procs |-> "idle"]
  /\ req = [p \in Procs |-> NoReq]
  /\ loc = [p \in Procs |-> NoLoc]
  /\ out = [p \in Procs |-> NoOut]
  /\ res = [p \in Procs |-> NoRes]
  /\ calls = [p \in Procs |-> NoCalls]
  /\ trace = [p \in Procs |-> <<>>]
  /\ written = <<>>

AskInPastSession(p) == AskStartWith(p, {PastSessionId}, Queries, BOOLEAN)

NextHistory ==
  \/ \E p \in Serial : AskInPastSession(p)
  \/ \E p \in Serial : AskGetSession(p)
  \/ \E p \in Serial : AmGet(p)
  \/ \E p \in Serial : UsGet(p)
  \/ \E p \in Serial : UsSet(p)
  \/ \E p \in Serial : PqCache(p)
  \/ \E p \in Serial : PqEmbed(p)
  \/ \E p \in Serial : PqSearch(p)
  \/ \E p \in Serial : PqGenerate(p)
  \/ \E p \in Serial : PqSetCache(p)
  \/ \E p \in Serial : PqsEmbed(p)
  \/ \E p \in Serial : PqsSearch(p)
  \/ \E p \in Serial : PqsGenerate(p)
  \/ Tick

SpecHistory == InitHistory /\ [][NextHistory]_vars

(***************************************************************************)
(* The service, one request at a time, sent messages that validation       *)
(* accepts and messages that it rejects.                                   *)
(***************************************************************************)
ValidationMessages ==
  {"", Undefined, "<number>", "hi", " hi\t", "Why", "Why?", "x * max",
   " x * max ", "x * (max + 1)"}

\* The messages sent to the chat route: all but the valid ones of the
\* greatest length.
RouteMessages == ValidationMessages \ {"x * max", " x * max "}

AskAnyMessage(p) == AskStartWith(p, {"s1"}, RouteMessages, {FALSE})

\* validateQuery(query), called on its own.
StartValidateQuery(p) ==
  \E m \in ValidationMessages :
    /\ Begin(p, [NoReq EXCEPT !.op = "validateQuery", !.message = m],
             "validate", NoLoc)
    /\ UNCHANGED <<redis, now, nextUuid, geminiKey, faults, qdrant, collections, written>>

ReturnValidation(p) ==
  /\ pc[p] = "validate"
  /\ pc' = [pc EXCEPT ![p] = "done"]
  /\ out' = [out EXCEPT ![p] = Returned(ValidateQuery(req[p].message))]
  /\ UNCHANGED <<redis, now, nextUuid, budget, geminiKey, faults, qdrant, collections, req, loc, res,
                 calls, trace, written>>

InitValidate == InitIn({TRUE}, {FALSE}, MaxValidateOps, 0)

NextValidate ==
  \/ \E p \in Serial : StartValidateQuery(p)
  \/ \E p \in Serial : ReturnValidation(p)
  \/ \E p \in Serial : AskAnyMessage(p)
  \/ \E p \in Serial : AskReject(p)
  \/ \E p \in Serial : AskGetSession(p)
  \/ \E p \in Serial : AskCreateSession(p)
  \/ \E p \in Serial : AmGet(p)
  \/ \E p \in Serial : UsGet(p)
  \/ \E p \in Serial : UsSet(p)
  \/ \E p \in Serial : PqCache(p)
  \/ \E p \in Serial : PqEmbed(p)
  \/ \E p \in Serial : PqSearch(p)
  \/ \E p \in Serial : PqGenerate(p)
  \/ \E p \in Serial : PqSetCache(p)

SpecValidate == InitValidate /\ [][NextValidate]_vars

(***************************************************************************)
(* The embedding gateway called on its own, by callers that overlap, next  *)
(* to the chat route that calls it from the pipeline.                      *)
(***************************************************************************)
EmbedTexts == {"Why?", "Why", "hi"}

\* createEmbedding(text); what the provider does with the call, or that no
\* client is configured, is fixed when the call starts.
StartCreateEmbedding(p) ==
  \E text \in EmbedTexts, provider \in EmbeddingProviderOutcomes :
    /\ Begin(p, [NoReq EXCEPT !.op = "createEmbedding", !.message = text,
                              !.data = [provider |-> provider]],
             "ce_post", NoLoc)
    /\ UNCHANGED <<redis, now, nextUuid, geminiKey, faults, qdrant, collections, written>>

\* await client.post("/embeddings", ...) and the return, or the return of the
\* fallback embedding.
ReturnEmbedding(p) ==
  /\ pc[p] = "ce_post"
  /\ pc' = [pc EXCEPT ![p] = "done"]
  /\ out' = [out EXCEPT ![p] =
               Returned(CreateEmbedding(req[p].message, req[p].data.provider))]
  /\ calls' = [calls EXCEPT ![p].embed = @ + 1]
  /\ UNCHANGED <<redis, now, nextUuid, budget, geminiKey, faults, qdrant, collections, req, loc, res,
                 trace, written>>

InitEmbed == InitIn(BOOLEAN, {TRUE}, MaxEmbedOps, 0)

NextEmbed ==
  \/ \E p \in Procs : StartCreateEmbedding(p)
  \/ \E p \in Procs : ReturnEmbedding(p)
  \/ \E p \in Serial : AskStart(p)
  \/ \E p \in Serial : AskReject(p)
  \/ \E p \in Serial : AskGetSession(p)
  \/ \E p \in Serial : AskCreateSession(p)
  \/ \E p \in Serial : AmGet(p)
  \/ \E p \in Serial : UsGet(p)
  \/ \E p \in Serial : UsSet(p)
  \/ \E p \in Serial : PqCache(p)
  \/ \E p \in Serial : PqEmbed(p)
  \/ \E p \in Serial : PqSearch(p)
  \/ \E p \in Serial : PqGenerate(p)
  \/ \E p \in Serial : PqSetCache(p)
  \/ \E p \in Serial : PqsEmbed(p)
  \/ \E p \in Serial : PqsSearch(p)
  \/ \E p \in Serial : PqsGenerate(p)

SpecEmbed == InitEmbed /\ [][NextEmbed]_vars

(***************************************************************************)
(* The service, one request at a time and without faults, over a time in   *)
(* which a query-result cache entry expires.                               *)
(***************************************************************************)
InitExpiry == InitIn({TRUE}, {FALSE}, MaxExpiryOps, MaxExpiryTime)

AskAgain(p) == AskStartWith(p, {"s1"}, Queries, BOOLEAN)

NextExpiry ==
  \/ \E p \in Serial : AskAgain(p)
  \/ \E p \in Serial : AskGetSession(p)
  \/ \E p \in Serial : AskCreateSession(p)
  \/ \E p \in Serial : AmGet(p)
  \/ \E p \in Serial : UsGet(p)
  \/ \E p \in Serial : UsSet(p)
  \/ \E p \in Serial : PqCache(p)
  \/ \E p \in Serial : PqEmbed(p)
  \/ \E p \in Serial : PqSearch(p)
  \/ \E p \in Serial : PqGenerate(p)
  \/ \E p \in Serial : PqSetCache(p)
  \/ \E p \in Serial : PqsEmbed(p)
  \/ \E p \in Serial : PqsSearch(p)
  \/ \E p \in Serial : PqsGenerate(p)
  \/ Tick

SpecExpiry == InitExpiry /\ [][NextExpiry]_vars

(***************************************************************************)
(* The vector index searched on its own, next to the chat route that       *)
(* searches it from the pipeline.                                          *)
(***************************************************************************)
SearchLimits == {1, 2, SearchLimit}
ScoreThresholds == {0, ScoreFloor, 80}

\* searchSimilar(queryEmbedding, limit, scoreThreshold), up to its request.
StartSearchSimilar(p) ==
  \E limit \in SearchLimits, scoreThreshold \in ScoreThresholds :
    /\ Begin(p, [NoReq EXCEPT !.op = "searchSimilar",
                              !.data = [limit |-> limit,
                                        scoreThreshold |-> scoreThreshold]],
             "ss_post",
             [NoLoc EXCEPT !.queryEmbedding = CreateEmbedding("Why?", "ok")])
    /\ UNCHANGED <<redis, now, nextUuid, geminiKey, faults, qdrant, collections, written>>

\* await client.post(".../points/search", payload), and the return of the
\* hits or the rethrown error.
ReturnSearch(p) ==
  /\ pc[p] = "ss_post"
  /\ pc' = [pc EXCEPT ![p] = "done"]
  /\ calls' = [calls EXCEPT ![p].search = @ + 1, ![p].searchArgs = req[p].data]
  /\ \E o \in SearchOutcomes(LargeIndexContents,
                              SearchPayload(loc[p].queryEmbedding,
                                            req[p].data.limit,
                                            req[p].data.scoreThreshold),
                              faults) :
       out' = [out EXCEPT ![p] = IF o.kind = "throw" THEN o
                                  ELSE Returned(MapHits(o.value.result))]
  /\ UNCHANGED <<redis, now, nextUuid, budget, geminiKey, faults, qdrant, collections, req,
                 loc, res, trace, written>>

InitSearch == InitIn({TRUE}, {TRUE}, MaxSearchOps, 0)

AskOnce(p) == AskStartWith(p, {"s1"}, Queries, BOOLEAN)

NextSearch ==
  \/ \E p \in Serial : StartSearchSimilar(p)
  \/ \E p \in Serial : ReturnSearch(p)
  \/ \E p \in Serial : AskOnce(p)
  \/ \E p \in Serial : AskGetSession(p)
  \/ \E p \in Serial : AskCreateSession(p)
  \/ \E p \in Serial : AmGet(p)
  \/ \E p \in Serial : UsGet(p)
  \/ \E p \in Serial : UsSet(p)
  \/ \E p \in Serial : PqCache(p)
  \/ \E p \in Serial : PqEmbed(p)
  \/ \E p \in Serial : PqSearch(p)
  \/ \E p \in Serial : PqGenerate(p)
  \/ \E p \in Serial : PqSetCache(p)
  \/ \E p \in Serial : PqsEmbed(p)
  \/ \E p \in Serial : PqsSearch(p)
  \/ \E p \in Serial : PqsGenerate(p)

SpecSearch == InitSearch /\ [][NextSearch]_vars

(***************************************************************************)
(* News ingestion (services/newsIngestion): runIngestion and ingestNews.   *)
(***************************************************************************)
MinTitleLength == 10
MinContentLength == 50
EnrichLimit == 50
SkipFetchLength == 500
ArticlesCacheTTL == 3600
EmbedBatchSize == 5

\* Titles and contents of the feeds' items: a title of 26 characters and one
\* of 10, a content of 531 characters and one of 39; and the text of 63
\* characters found on an article's page.
LongTitle == "Market rallies on earnings"
ShortTitle == "Rates held"
Paragraph == "Stocks rose 2% today on strong earnings across all sectors."
LongContent ==
  Paragraph \o Paragraph \o Paragraph \o Paragraph \o Paragraph \o Paragraph
    \o Paragraph \o Paragraph \o Paragraph
ShortContent == "Stocks rose 2% today on strong earnings"
PageContent == "Shares climbed on Tuesday as earnings beat every forecast made."

FeedUrls == {"http://a/1", "http://a/2"}

\* What a feed item gives for an article, but for its id.
FeedItem(title, content, url) ==
  [title |-> title, content |-> content, url |-> url,
   publishedAt |-> "2024-01-01", source |-> "wire", summary |-> content]

FeedItems ==
  {FeedItem(LongTitle, LongContent, u) : u \in FeedUrls}
    \cup {FeedItem(ShortTitle, LongContent, "http://a/1"),
          FeedItem(LongTitle, ShortContent, "http://a/1")}

RECURSIVE ItemsUpTo(_)
\* The item sequences of at most n items that the feeds deliver.
ItemsUpTo(n) ==
  IF n = 0 THEN {<<>>}
  ELSE LET shorter == ItemsUpTo(n - 1) IN
       shorter \cup {Append(b, i) : b \in shorter, i \in FeedItems}

\* fetchRSSFeed: every item becomes an article with an id of its own, uuidv4().
WithIds(items, uuid) ==
  [i \in 1..Len(items) |-> Spread([id |-> uuid + i - 1], items[i])]

\* a.filter(keep), given the indices that keep holds for
RECURSIVE FilterSeq(_, _)
FilterSeq(a, kept) ==
  IF a = <<>> THEN <<>>
  ELSE LET rest == FilterSeq(SubSeq(a, 1, Len(a) - 1), kept) IN
       IF Len(a) \in kept THEN Append(rest, a[Len(a)]) ELSE rest

UniqueArticles_LastWins(allArticles) ==
  FilterSeq(allArticles,
            {i \in DOMAIN allArticles :
               \A j \in DOMAIN allArticles :
                 allArticles[j].url = allArticles[i].url => j <= i})

\* allArticles.filter((article, index, self) =>
\*   index === self.findIndex((a) => a.url === article.url))
UniqueArticles(allArticles) ==
  FilterSeq(allArticles,
            {i \in DOMAIN allArticles :
               \A j \in DOMAIN allArticles :
                 allArticles[j].url = allArticles[i].url => i <= j})

\* a.slice(0, n)
SliceFirst(a, n) == IF Len(a) <= n THEN a ELSE SubSeq(a, 1, n)

\* What the request for an article's page gives: no text, a text, or an error.
PageOutcomes == {"", PageContent, "<error>"}

\* fetchArticleContent(article), the outcome of the page request given.
FetchArticleContent(article, page) ==
  IF article.url = "" \/ Len(article.content) > SkipFetchLength THEN article
  ELSE IF page = "<error>" THEN article
  ELSE [article EXCEPT !.content = IF page # "" THEN page ELSE @]

\* processArticles: articles.filter((article) =>
\*   article.title.length > 10 && article.content.length > 50)
ValidArticle(article) ==
  Len(article.title) > MinTitleLength /\ Len(article.content) > MinContentLength

ValidArticles(articles) ==
  FilterSeq(articles, {i \in DOMAIN articles : ValidArticle(articles[i])})

\* createArticleEmbedding(article), the provider's outcome given; a fallback
\* vector is named by the text that it is the fallback vector of.
CreateArticleEmbedding(article, provider) ==
  LET textToEmbed == article.title \o "\n\n" \o article.content IN
  Spread(article,
         [embedding |-> IF provider = "ok"
                        THEN [kind |-> "provider", dim |-> 768]
                        ELSE [kind |-> "fallback", of |-> textToEmbed, dim |-> 768],
          textForEmbedding |-> textToEmbed])

\* addDocuments: the points of the documents.
PointsOf(documents) ==
  [i \in 1..Len(documents) |->
     [id |-> documents[i].id, vector |-> documents[i].embedding,
      payload |-> [title |-> documents[i].title, content |-> documents[i].content,
                   url |-> documents[i].url,
                   publishedAt |-> documents[i].publishedAt,
                   source |-> documents[i].source,
                   summary |-> documents[i].summary]]]

\* PUT /collections/news_articles/points: every point is stored under its
\* id, in the place of the point that had the id.
Upsert(collection, points) ==
  LET ids == {points[i].id : i \in DOMAIN points} IN
  [id \in (DOMAIN collection) \cup ids |->
     IF id \in ids
     THEN LET i == CHOOSE j \in DOMAIN points :
                     points[j].id = id /\ \A k \in DOMAIN points :
                                            points[k].id = id => k <= j
          IN [vector |-> points[i].vector, payload |-> points[i].payload]
     ELSE collection[id]]

\* Whether a request to the vector index succeeds.
IndexAnswers(faulty) == IF faulty THEN BOOLEAN ELSE {TRUE}

\* Where ingestNews goes on once the articles are enriched: processArticles
\* filters them and embeds the valid ones, or upserts none.
AfterEnrichment(enrichedArticles) ==
  IF ValidArticles(enrichedArticles) = <<>> THEN "in_upsert" ELSE "in_embed"

\* runIngestion(): ingestNews fetches the feeds, drops the articles whose url
\* an earlier article has, and keeps the first 50.
StartRunIngestion(p) ==
  \E items \in ItemsUpTo(MaxBatch) :
    LET allArticles == WithIds(items, nextUuid)
        uniqueArticles == SliceFirst(UniqueArticles(allArticles), EnrichLimit) IN
    /\ Begin(p, [NoReq EXCEPT !.op = "runIngestion", !.data = allArticles],
             IF uniqueArticles = <<>> THEN AfterEnrichment(<<>>) ELSE "in_enrich",
             [NoLoc EXCEPT !.uniqueArticles = uniqueArticles])
    /\ nextUuid' = nextUuid + Len(items)
    /\ UNCHANGED <<redis, now, geminiKey, faults, qdrant, collections, written>>

\* await fetchArticleContent(article), for the next article; after the last
\* one processArticles is called.
IngestEnrich(p) ==
  /\ pc[p] = "in_enrich"
  /\ \E page \in PageOutcomes :
       LET article == loc[p].uniqueArticles[Len(loc[p].enrichedArticles) + 1]
           enrichedArticles == Append(loc[p].enrichedArticles,
                                      FetchArticleContent(article, page)) IN
       /\ loc' = [loc EXCEPT ![p].enrichedArticles = enrichedArticles]
       /\ pc' = [pc EXCEPT ![p] =
                   IF Len(enrichedArticles) < Len(loc[p].uniqueArticles)
                   THEN "in_enrich" ELSE AfterEnrichment(enrichedArticles)]
  /\ UNCHANGED <<redis, now, nextUuid, budget, geminiKey, faults, qdrant, collections, req,
                 out, res, calls, trace, written>>

\* createArticleEmbeddings: await Promise.all(...) for the next batch of 5 of
\* the valid articles, each with the provider's outcome for it.
IngestEmbed(p) ==
  /\ pc[p] = "in_embed"
  /\ LET validArticles == ValidArticles(loc[p].enrichedArticles)
         embedded == Len(loc[p].articlesWithEmbeddings)
         batch == SliceFirst(SubSeq(validArticles, embedded + 1, Len(validArticles)),
                             EmbedBatchSize) IN
     \E provider \in [DOMAIN batch -> EmbeddingProviderOutcomes] :
       /\ loc' = [loc EXCEPT ![p].articlesWithEmbeddings =
                    @ \o [i \in DOMAIN batch |->
                            CreateArticleEmbedding(batch[i], provider[i])]]
       /\ pc' = [pc EXCEPT ![p] =
                   IF embedded + Len(batch) < Len(validArticles)
                   THEN "in_embed" ELSE "in_upsert"]
       /\ calls' = [calls EXCEPT ![p].embed = @ + Len(batch)]
  /\ UNCHANGED <<redis, now, nextUuid, budget, geminiKey, faults, qdrant, collections, req,
                 out, res, trace, written>>

\* An error thrown in ingestNews: runIngestion returns it as a failure.
IngestFail(p, msg) ==
  /\ pc' = [pc EXCEPT ![p] = "done"]
  /\ out' = [out EXCEPT ![p] = Returned([success |-> FALSE, error |-> msg])]

\* await addDocuments(articlesWithEmbeddings)
IngestUpsert(p) ==
  /\ pc[p] = "in_upsert"
  /\ \E ok \in IndexAnswers(faults) :
       IF ok
       THEN /\ qdrant' = Upsert(qdrant, PointsOf(loc[p].articlesWithEmbeddings))
            /\ calls' = [calls EXCEPT ![p].upsert = @ + 1]
            /\ pc' = [pc EXCEPT ![p] = "in_cache"]
            /\ out' = out
       ELSE /\ IngestFail(p, "Request failed with status code 503")
            /\ UNCHANGED <<qdrant, calls>>
  /\ UNCHANGED <<redis, now, nextUuid, budget, geminiKey, faults, collections, req,
                 loc, res, trace, written>>

\* await setCache("latest_articles", articlesWithEmbeddings, 3600), and the
\* returns of processArticles, ingestNews and runIngestion.
IngestCache(p) ==
  /\ pc[p] = "in_cache"
  /\ \E ok \in StoreAnswers(faults) :
       IF ok
       THEN /\ redis' = SetCacheList(redis, "latest_articles",
                                     loc[p].articlesWithEmbeddings,
                                     ArticlesCacheTTL)
            /\ calls' = [calls EXCEPT ![p].cacheSet = @ + 1]
            /\ pc' = [pc EXCEPT ![p] = "done"]
            /\ LET articles == loc[p].enrichedArticles IN
               out' = [out EXCEPT ![p] =
                 Returned([success |-> TRUE, articlesCount |-> Len(articles),
                           message |-> "Successfully ingested "
                                         \o ToString(Len(articles))
                                         \o " articles"])]
       ELSE /\ IngestFail(p, "Redis: connection lost")
            /\ UNCHANGED <<redis, calls>>
  /\ UNCHANGED <<now, nextUuid, budget, geminiKey, faults, qdrant, collections, req, loc, res,
                 trace, written>>

InitIngest == InitIn({TRUE}, {TRUE}, MaxIngestOps, 0)

NextIngest ==
  \/ \E p \in Serial : StartRunIngestion(p)
  \/ \E p \in Serial : IngestEnrich(p)
  \/ \E p \in Serial : IngestEmbed(p)
  \/ \E p \in Serial : IngestUpsert(p)
  \/ \E p \in Serial : IngestCache(p)

SpecIngest == InitIngest /\ [][NextIngest]_vars

(***************************************************************************)
(* The derivation of the cache key, for two query texts side by side.      *)
(***************************************************************************)
\* The code units of the model's texts: W, w, a space, e with acute accent,
\* a high and a low surrogate, and U+FFFD.
KeyUnits == {87, 119, 32, 233, 55296, 56320, 65533}

RECURSIVE TextsUpTo(_)
TextsUpTo(n) ==
  IF n = 0 THEN {<<>>}
  ELSE LET shorter == TextsUpTo(n - 1) IN
       shorter \cup {Append(t, c) : t \in shorter, c \in KeyUnits}

\* processQuery(query, sessionId, ...) up to the derivation of cacheKey; the
\* query is held as its code units.
StartCacheKey(p) ==
  \E u \in TextsUpTo(MaxKeyLen), s \in SessionIds :
    /\ Begin(p, [NoReq EXCEPT !.op = "cacheKey", !.sessionId = s, !.data = u],
             "cache_key", NoLoc)
    /\ UNCHANGED <<redis, now, nextUuid, geminiKey, faults, qdrant, collections, written>>

DeriveCacheKey(p) ==
  /\ pc[p] = "cache_key"
  /\ pc' = [pc EXCEPT ![p] = "done"]
  /\ out' = [out EXCEPT ![p] = Returned(CacheKeyOfUnits(req[p].data))]
  /\ UNCHANGED <<redis, now, nextUuid, budget, geminiKey, faults, qdrant, collections, req, loc, res,
                 calls, trace, written>>

InitKey == InitIn({TRUE}, {FALSE}, MaxKeyOps, 0)

NextKey ==
  \/ \E p \in Procs : StartCacheKey(p)
  \/ \E p \in Procs : DeriveCacheKey(p)

SpecKey == InitKey /\ [][NextKey]_vars

(***************************************************************************)
(* processQuery under concurrent callers.                                  *)
(***************************************************************************)
\* processQuery(query, sessionId, sessionHistory)
StartProcessQuery(p) ==
  \E q \in Queries, s \in SessionIds :
    /\ Begin(p, [NoReq EXCEPT !.op = "processQuery", !.sessionId = s, !.message = q],
             "pq_cache",
             [NoLoc EXCEPT !.storedBefore = WritesFor(written, QueryCacheKey(q))])
    /\ UNCHANGED <<redis, now, nextUuid, geminiKey, faults, qdrant, collections, written>>

InitRace == InitIn({TRUE}, BOOLEAN, MaxRaceOps, MaxRaceTime)

NextRace ==
  \/ \E p \in Procs : StartProcessQuery(p)
  \/ \E p \in Procs : PqCache(p)
  \/ \E p \in Procs : PqEmbed(p)
  \/ \E p \in Procs : PqSearch(p)
  \/ \E p \in Procs : PqGenerate(p)
  \/ \E p \in Procs : PqSetCache(p)
  \/ Tick

SpecRace == InitRace /\ [][NextRace]_vars

(***************************************************************************)
(* The store's functions called directly: the session store, the cache     *)
(* functions and getAllSessions, by callers that overlap.                  *)
(***************************************************************************)
\* The key arguments of a direct cache call: the two that the service uses,
\* and one that reads like a session key.
CacheNames == {"latest_articles", QueryCacheKey("Why?"), "session:s1"}
CacheValues == {[response |-> "stored"]}
\* The ttl arguments: none, and the pipeline's.
CacheTTLs == {0, QueryCacheTTL}

\* client.keys(prefix + "*"), for the keys that the model's calls write.
RedisKeys(store, prefix) ==
  {k \in DOMAIN store : \E n \in SessionIds \cup CacheNames : k = prefix \o n}

\* The orders in which a set of keys may be listed.
Orders(S) ==
  {s \in [1..Cardinality(S) -> S] : \A x \in S : \E i \in DOMAIN s : s[i] = x}

\* setCache(key, value, ttl)
StartSetCache(p) ==
  \E k \in CacheNames, v \in CacheValues, ttl \in CacheTTLs :
    /\ Begin(p, [NoReq EXCEPT !.op = "setCache",
                              !.data = [key |-> k, value |-> v, ttl |-> ttl]],
             "sc_setex", NoLoc)
    /\ UNCHANGED <<redis, now, nextUuid, geminiKey, faults, qdrant, collections, written>>

\* await client.setEx(cacheKey, ttl or the default, cacheValue)
SetCacheSetEx(p) ==
  /\ pc[p] = "sc_setex"
  /\ redis' = SetCache(redis, req[p].data.key, req[p].data.value, req[p].data.ttl)
  /\ pc' = [pc EXCEPT ![p] = "done"]
  /\ out' = [out EXCEPT ![p] = Returned(Null)]
  /\ calls' = [calls EXCEPT ![p].cacheSet = @ + 1]
  /\ UNCHANGED <<now, nextUuid, budget, geminiKey, faults, qdrant, collections, req, loc, res,
                 trace, written>>

\* getCache(key)
StartGetCache(p) ==
  \E k \in CacheNames :
    /\ Begin(p, [NoReq EXCEPT !.op = "getCache", !.data = [key |-> k]],
             "gc_get", NoLoc)
    /\ UNCHANGED <<redis, now, nextUuid, geminiKey, faults, qdrant, collections, written>>

\* await client.get(cacheKey), and the return of the parsed value or null.
GetCacheGet(p) ==
  /\ pc[p] = "gc_get"
  /\ pc' = [pc EXCEPT ![p] = "done"]
  /\ out' = [out EXCEPT ![p] = Returned(GetCache(redis, req[p].data.key))]
  /\ UNCHANGED <<redis, now, nextUuid, budget, geminiKey, faults, qdrant, collections, req, loc,
                 res, calls, trace, written>>

\* deleteCache(key)
StartDeleteCache(p) ==
  \E k \in CacheNames :
    /\ Begin(p, [NoReq EXCEPT !.op = "deleteCache", !.data = [key |-> k]],
             "dc_del", NoLoc)
    /\ UNCHANGED <<redis, now, nextUuid, geminiKey, faults, qdrant, collections, written>>

\* await client.del(cacheKey)
DeleteCacheDel(p) ==
  /\ pc[p] = "dc_del"
  /\ redis' = RedisDel(redis, CacheKey(req[p].data.key))
  /\ pc' = [pc EXCEPT ![p] = "done"]
  /\ out' = [out EXCEPT ![p] = Returned(Null)]
  /\ UNCHANGED <<now, nextUuid, budget, geminiKey, faults, qdrant, collections, req, loc, res,
                 calls, trace, written>>

\* clearAllCache()
StartClearAllCache(p) ==
  /\ Begin(p, [NoReq EXCEPT !.op = "clearAllCache"], "cac_keys", NoLoc)
  /\ UNCHANGED <<redis, now, nextUuid, geminiKey, faults, qdrant, collections, written>>

\* const keys = await client.keys("cache:*"); with no key the call returns.
ClearAllCacheKeys(p) ==
  /\ pc[p] = "cac_keys"
  /\ LET keys == RedisKeys(redis, CacheKey("")) IN
     /\ loc' = [loc EXCEPT ![p].keys = CHOOSE s \in Orders(keys) : TRUE]
     /\ pc' = [pc EXCEPT ![p] = IF keys = {} THEN "done" ELSE "cac_del"]
     /\ out' = [out EXCEPT ![p] = IF keys = {} THEN Returned(Null) ELSE @]
  /\ UNCHANGED <<redis, now, nextUuid, budget, geminiKey, faults, qdrant, collections, req, res,
                 calls, trace, written>>

\* await client.del(keys)
ClearAllCacheDel(p) ==
  /\ pc[p] = "cac_del"
  /\ redis' = [k \in (DOMAIN redis) \ {loc[p].keys[i] : i \in DOMAIN loc[p].keys}
                 |-> redis[k]]
  /\ pc' = [pc EXCEPT ![p] = "done"]
  /\ out' = [out EXCEPT ![p] = Returned(Null)]
  /\ UNCHANGED <<now, nextUuid, budget, geminiKey, faults, qdrant, collections, req, loc, res,
                 calls, trace, written>>

\* getAllSessions()
StartGetAllSessions(p) ==
  /\ Begin(p, [NoReq EXCEPT !.op = "getAllSessions"], "gas_keys", NoLoc)
  /\ UNCHANGED <<redis, now, nextUuid, geminiKey, faults, qdrant, collections, written>>

\* const keys = await client.keys("session:*"), in the order Redis lists them.
GetAllSessionsKeys(p) ==
  /\ pc[p] = "gas_keys"
  /\ \E keys \in Orders(RedisKeys(redis, SessionKey(""))) :
       /\ loc' = [loc EXCEPT ![p].keys = keys]
       /\ pc' = [pc EXCEPT ![p] = IF keys = <<>> THEN "done" ELSE "gas_get"]
       /\ out' = [out EXCEPT ![p] = IF keys = <<>> THEN Returned(<<>>) ELSE @]
  /\ UNCHANGED <<redis, now, nextUuid, budget, geminiKey, faults, qdrant, collections, req, res,
                 calls, trace, written>>

\* One turn of the loop: await client.get(key), and the push of the parsed
\* session if the key still holds one; after the last key, the return.
GetAllSessionsGet(p) ==
  /\ pc[p] = "gas_get"
  /\ LET sessionData == RedisGet(redis, Head(loc[p].keys))
         sessions == IF sessionData # Null
                     THEN Append(loc[p].sessions, sessionData)
                     ELSE loc[p].sessions IN
     /\ loc' = [loc EXCEPT ![p].keys = Tail(@), ![p].sessions = sessions]
     /\ pc' = [pc EXCEPT ![p] = IF Tail(loc[p].keys) = <<>> THEN "done" ELSE @]
     /\ out' = [out EXCEPT ![p] = IF Tail(loc[p].keys) = <<>>
                                  THEN Returned(sessions) ELSE @]
  /\ UNCHANGED <<redis, now, nextUuid, budget, geminiKey, faults, qdrant, collections, req, res,
                 calls, trace, written>>

InitConfine == InitIn({TRUE}, {FALSE}, MaxConfineOps, 0)

NextConfine ==
  \/ \E p \in Procs : StartCreateSession(p)
  \/ \E p \in Procs : StartGetSession(p)
  \/ \E p \in Procs : StartClearSession(p)
  \/ \E p \in Procs : StartAddMessage(p)
  \/ \E p \in Procs : StartUpdateSession(p)
  \/ \E p \in Procs : StartGetAllSessions(p)
  \/ \E p \in Procs : StartSetCache(p)
  \/ \E p \in Procs : StartGetCache(p)
  \/ \E p \in Procs : StartDeleteCache(p)
  \/ \E p \in Procs : StartClearAllCache(p)
  \/ \E p \in Procs : CreateSession(p)
  \/ \E p \in Procs : GetSession(p)
  \/ \E p \in Procs : ClearSession(p)
  \/ \E p \in Procs : AmGet(p)
  \/ \E p \in Procs : UsGet(p)
  \/ \E p \in Procs : UsSet(p)
  \/ \E p \in Procs : GetAllSessionsKeys(p)
  \/ \E p \in Procs : GetAllSessionsGet(p)
  \/ \E p \in Procs : SetCacheSetEx(p)
  \/ \E p \in Procs : GetCacheGet(p)
  \/ \E p \in Procs : DeleteCacheDel(p)
  \/ \E p \in Procs : ClearAllCacheKeys(p)
  \/ \E p \in Procs : ClearAllCacheDel(p)

SpecConfine == InitConfine /\ [][NextConfine]_vars

(***************************************************************************)
(* The start-up of the vector index client and the collection's            *)
(* initialization, against an index that may or may not hold the           *)
(* collection already, by callers that overlap.                            *)
(***************************************************************************)
\* The points of a collection that earlier runs have filled.
FilledCollection ==
  Upsert(<<>>, <<[id |-> "d1", vector |-> CreateFallbackEmbedding("Why"),
                  payload |-> [title |-> LongTitle, url |-> "url1"]]>>)

\* The index when a process starts: without the collection, or with it,
\* empty or filled.
InitCollection ==
  /\ \/ collections = <<>> /\ qdrant = <<>>
     \/ collections = Created(<<>>) /\ qdrant \in {<<>>, FilledCollection}
  /\ redis = <<>>
  /\ now = 0
  /\ nextUuid = 1
  /\ budget = [ops |-> MaxCollectionOps, ticks |-> 0]
  /\ geminiKey = TRUE
  /\ faults \in BOOLEAN
  /\ pc = [p \in Procs |-> "idle"]
  /\ req = [p \in Procs |-> NoReq]
  /\ loc = [p \in Procs |-> NoLoc]
  /\ out = [p \in Procs |-> NoOut]
  /\ res = [p \in Procs |-> NoRes]
  /\ calls = [p \in Procs |-> NoCalls]
  /\ trace = [p \in Procs |-> <<>>]
  /\ written = <<>>

\* The errors of a request to create a collection that exists: the index
\* answers 400 or, in later versions, 409.
ConflictErrors ==
  {"Request failed with status code 400", "Request failed with status code 409"}

\* initializeQdrant()
StartInitializeQdrant(p) ==
  /\ Begin(p, [NoReq EXCEPT !.op = "initializeQdrant"], "iq_get", NoLoc)
  /\ UNCHANGED <<redis, now, nextUuid, geminiKey, faults, qdrant, collections, written>>

\* qdrantClient = axios.create(...); await qdrantClient.get("/collections"),
\* the test of the connection; then createCollection is entered.
InitializeQdrantGet(p) ==
  /\ pc[p] = "iq_get"
  /\ \E ok \in IndexAnswers(faults) :
       IF ok
       THEN /\ pc' = [pc EXCEPT ![p] = "cc_get"]
            /\ UNCHANGED <<out, res>>
       ELSE Throw(p, "Request failed with status code 503")
  /\ trace' = [trace EXCEPT ![p] = Append(@, "TestConnection")]
  /\ UNCHANGED <<redis, now, nextUuid, budget, geminiKey, faults, qdrant, collections, req,
                 loc, calls, written>>

\* What the call returns when createCollection has returned: the client from
\* initializeQdrant, nothing from createCollection itself.
CollectionReady(p) ==
  Returned(IF req[p].op = "initializeQdrant"
           THEN [baseURL |-> "http://localhost:6333"] ELSE Null)

\* createCollection(), by a module that has initialized the client.
StartCreateCollection(p) ==
  /\ Begin(p, [NoReq EXCEPT !.op = "createCollection"], "cc_get", NoLoc)
  /\ UNCHANGED <<redis, now, nextUuid, geminiKey, faults, qdrant, collections, written>>

\* const collections = await qdrantClient.get("/collections"), and the check
\* whether the collection exists: if so, the call returns.
CreateCollectionGet(p) ==
  /\ pc[p] = "cc_get"
  /\ \E ok \in IndexAnswers(faults) :
       IF ~ok
       THEN Throw(p, "Request failed with status code 503")
       ELSE IF CollectionExists(collections)
       THEN /\ pc' = [pc EXCEPT ![p] = "done"]
            /\ out' = [out EXCEPT ![p] = CollectionReady(p)]
            /\ res' = res
       ELSE /\ pc' = [pc EXCEPT ![p] = "cc_put"]
            /\ UNCHANGED <<out, res>>
  /\ trace' = [trace EXCEPT ![p] = Append(@, "ListCollections")]
  /\ UNCHANGED <<redis, now, nextUuid, budget, geminiKey, faults, qdrant, collections, req,
                 loc, calls, written>>

\* await qdrantClient.put("/collections/news_articles", { vectors: ... }): the
\* index creates the collection, or refuses if it exists by now.
CreateCollectionPut(p) ==
  /\ pc[p] = "cc_put"
  /\ \E ok \in IndexAnswers(faults) :
       IF ~ok
       THEN /\ Throw(p, "Request failed with status code 503")
            /\ collections' = collections
       ELSE IF CollectionName \in DOMAIN collections
       THEN /\ \E e \in ConflictErrors : Throw(p, e)
            /\ collections' = collections
       ELSE /\ collections' = Created(collections)
            /\ pc' = [pc EXCEPT ![p] = "done"]
            /\ out' = [out EXCEPT ![p] = CollectionReady(p)]
            /\ res' = res
  /\ trace' = [trace EXCEPT ![p] = Append(@, "PutCollection")]
  /\ UNCHANGED <<redis, now, nextUuid, budget, geminiKey, faults, qdrant, req,
                 loc, calls, written>>

\* deleteCollection()
StartDeleteCollection(p) ==
  /\ Begin(p, [NoReq EXCEPT !.op = "deleteCollection"], "dc_delete", NoLoc)
  /\ UNCHANGED <<redis, now, nextUuid, geminiKey, faults, qdrant, collections, written>>

\* await client.delete("/collections/news_articles"): the collection goes
\* with its points; a collection that does not exist is not found.
DeleteCollectionDelete(p) ==
  /\ pc[p] = "dc_delete"
  /\ \E ok \in IndexAnswers(faults) :
       IF ~ok
       THEN /\ Throw(p, "Request failed with status code 503")
            /\ UNCHANGED <<qdrant, collections>>
       ELSE IF CollectionName \notin DOMAIN collections
       THEN /\ Throw(p, "Request failed with status code 404")
            /\ UNCHANGED <<qdrant, collections>>
       ELSE /\ collections' = [n \in (DOMAIN collections) \ {CollectionName}
                                  |-> collections[n]]
            /\ qdrant' = <<>>
            /\ pc' = [pc EXCEPT ![p] = "done"]
            /\ out' = [out EXCEPT ![p] = Returned(Null)]
            /\ res' = res
  /\ trace' = [trace EXCEPT ![p] = Append(@, "DeleteCollection")]
  /\ UNCHANGED <<redis, now, nextUuid, budget, geminiKey, faults, req, loc, calls,
                 written>>

NextCollection ==
  \/ \E p \in Procs : StartInitializeQdrant(p)
  \/ \E p \in Procs : StartCreateCollection(p)
  \/ \E p \in Procs : StartDeleteCollection(p)
  \/ \E p \in Procs : InitializeQdrantGet(p)
  \/ \E p \in Procs : CreateCollectionGet(p)
  \/ \E p \in Procs : CreateCollectionPut(p)
  \/ \E p \in Procs : DeleteCollectionDelete(p)

SpecCollection == InitCollection /\ [][NextCollection]_vars

(***************************************************************************)
(* Chat turns, not streamed, that overlap in one session that no request   *)
(* has created.                                                            *)
(***************************************************************************)
AskInNewSession(p) == AskStartWith(p, {"s1"}, Queries, {FALSE})

InitAskRace == InitIn({TRUE}, {FALSE}, MaxAskRaceOps, 0)

NextAskRace ==
  \/ \E p \in Procs : AskInNewSession(p)
  \/ \E p \in Procs : AskGetSession(p)
  \/ \E p \in Procs : AskCreateSession(p)
  \/ \E p \in Procs : AmGet(p)
  \/ \E p \in Procs : UsGet(p)
  \/ \E p \in Procs : UsSet(p)
  \/ \E p \in Procs : PqCache(p)
  \/ \E p \in Procs : PqEmbed(p)
  \/ \E p \in Procs : PqSearch(p)
  \/ \E p \in Procs : PqGenerate(p)
  \/ \E p \in Procs : PqSetCache(p)

SpecAskRace == InitAskRace /\ [][NextAskRace]_vars

(***************************************************************************)
(* A chat turn during which its session is cleared by another request, or  *)
(* runs out.                                                               *)
(***************************************************************************)
Clearing == {"p2"}

AskInSession(p) == AskStartWith(p, {"s1"}, Queries, BOOLEAN)

InitClearRace == InitIn({TRUE}, {FALSE}, MaxClearOps, MaxClearTime)

NextClearRace ==
  \/ \E p \in Serial : AskInSession(p)
  \/ \E p \in Serial : AskGetSession(p)
  \/ \E p \in Serial : AskCreateSession(p)
  \/ \E p \in Serial : AmGet(p)
  \/ \E p \in Serial : UsGet(p)
  \/ \E p \in Serial : UsSet(p)
  \/ \E p \in Serial : PqCache(p)
  \/ \E p \in Serial : PqEmbed(p)
  \/ \E p \in Serial : PqSearch(p)
  \/ \E p \in Serial : PqGenerate(p)
  \/ \E p \in Serial : PqSetCache(p)
  \/ \E p \in Serial : PqsEmbed(p)
  \/ \E p \in Serial : PqsSearch(p)
  \/ \E p \in Serial : PqsGenerate(p)
  \/ \E p \in Clearing : StartClearSession(p)
  \/ \E p \in Clearing : ClearSession(p)
  \/ Tick

SpecClearRace == InitClearRace /\ [][NextClearRace]_vars

(***************************************************************************)
(* Properties of the query-result cache.                                   *)
(***************************************************************************)
\* A direct processQuery call that has returned a value.
PqReturned(p) ==
  req[p].op = "processQuery" /\ pc[p] = "done" /\ out[p].kind = "return"

IsHitTrace(t) ==
  \E i \in 1..(Len(t) - 1) : t[i] = "CacheCheck" /\ t[i + 1] = "Done"

\* A chat turn that has ended with a result served from the cache.
HitAskDone(p) ==
  /\ req[p].op = "ask" /\ pc[p] = "done" /\ out[p].kind = "return"
  /\ IsHitTrace(trace[p])

\* C2, as the specification states it: a chat turn served from the cache
\* returns the cached result, has written no cache key, and has written no
\* session key.
C2_HitAskWritesNothing ==
  \A p \in Procs :
    HitAskDone(p) =>
      /\ res[p].body.response = out[p].value.response
      /\ calls[p].cacheSet = 0
      /\ calls[p].sessionSet = 0

\* C2, amended: on a cache hit processQuery returns the cached value as it
\* is and is a pure read: the step leaves every key of Redis, values and
\* remaining TTLs, as it was, and processQuery writes no session key.  The
\* turn around it answers with the cached response and sources, writes no
\* cache key, and writes the session only by its own appends of the user
\* message and of the assistant message (and by creating a missing session).
C2_HitIsPureReadOfPipeline ==
  /\ [][\A p \in Procs :
          (/\ req[p].op = "ask" /\ pc[p] = "pq_cache" /\ pc'[p] # "pq_cache"
           /\ out'[p].kind # "throw"
           /\ GetCache(redis, QueryCacheKey(req[p].message)) # Null)
          => /\ pc'[p] = "am_get"
             /\ loc'[p].ragResult = GetCache(redis, QueryCacheKey(req[p].message))
             /\ redis' = redis
             /\ calls' = calls
             /\ written' = written]_vars
  /\ [](\A p \in Procs :
          HitAskDone(p) =>
            /\ out[p].value = loc[p].ragResult
            /\ res[p].body.response = loc[p].ragResult.response
            /\ res[p].body.sources = loc[p].ragResult.sources
            /\ calls[p].embed = 0 /\ calls[p].search = 0 /\ calls[p].generate = 0
            /\ calls[p].cacheSet = 0
            /\ calls[p].sessionSet \in {2, 3})

\* A turn has been served from a cache entry written one Tick earlier, and
\* the entry still has the TTL that was left before the turn.
C2_Witness ==
  \E p \in Procs :
    /\ HitAskDone(p)
    /\ CacheKey(QueryCacheKey(req[p].message)) \in DOMAIN redis
    /\ redis[CacheKey(QueryCacheKey(req[p].message))].ttl = QueryCacheTTL - TickSeconds
    /\ redis[CacheKey(QueryCacheKey(req[p].message))].val = loc[p].ragResult

(***************************************************************************)
(* Properties of the pipeline's steps.                                     *)
(***************************************************************************)
MissSteps == <<"CacheCheck", "Embed", "Retrieve", "Generate", "Persist", "Done">>
HitSteps == <<"CacheCheck", "Done">>

\* The calls made when the first n steps of a miss are done.
CallsAfter(n) ==
  [embed |-> IF n >= 2 THEN 1 ELSE 0, search |-> IF n >= 3 THEN 1 ELSE 0,
   generate |-> IF n >= 4 THEN 1 ELSE 0, sessionSet |-> 0,
   cacheSet |-> IF n >= 5 THEN 1 ELSE 0, upsert |-> 0,
   searchArgs |-> IF n >= 3
                  THEN [limit |-> SearchLimit, scoreThreshold |-> ScoreFloor]
                  ELSE <<>>]

\* C3: a processQuery call is at every moment a prefix of the miss order
\* CacheCheck, Embed, Retrieve, Generate, cache write, Done, with each of
\* the three gateways called exactly once by the time its step is done; a
\* call that has returned went through all of it, or went from CacheCheck
\* directly to Done and called none of them.
C3_StepOrder ==
  \A p \in Procs :
    req[p].op = "processQuery" =>
      /\ pc[p] = "pq_cache" => trace[p] = <<>> /\ calls[p] = NoCalls
      /\ pc[p] = "pq_embed" => trace[p] = SubSeq(MissSteps, 1, 1) /\ calls[p] = CallsAfter(1)
      /\ pc[p] = "pq_search" => trace[p] = SubSeq(MissSteps, 1, 2) /\ calls[p] = CallsAfter(2)
      /\ pc[p] = "pq_generate" => trace[p] = SubSeq(MissSteps, 1, 3) /\ calls[p] = CallsAfter(3)
      /\ pc[p] = "pq_setcache" => trace[p] = SubSeq(MissSteps, 1, 4) /\ calls[p] = CallsAfter(4)
      /\ PqReturned(p) =>
            \/ trace[p] = MissSteps /\ calls[p] = CallsAfter(6)
            \/ trace[p] = HitSteps /\ calls[p] = NoCalls

\* One call has returned after a miss and an overlapping one after a hit.
C3_Witness ==
  \E p, q \in Procs :
    /\ PqReturned(p) /\ trace[p] = MissSteps
    /\ PqReturned(q) /\ trace[q] = HitSteps

\* The error messages of the model's gateways and stores, by the step that
\* fails.
ErrorsOf(step) ==
  CASE step = "Retrieve" -> {"Request failed with status code 503"}
    [] step = "Generate" -> {"Gemini API Error: quota exceeded",
                             "Failed to generate response from Gemini"}
    [] OTHER -> {"Redis: connection lost"}

\* C6: no step of processQuery is tried twice, and a call that a gateway or
\* store error has ended stopped at the failing step: that step was tried
\* once, the error the caller gets is the error of that step, no later step
\* has run, no result was produced, and the call has written no cache key.
C6_NoRetry ==
  \A p \in Procs :
    req[p].op = "processQuery" =>
      /\ \A g \in DOMAIN NoCalls \ {"searchArgs"} : calls[p][g] <= 1
      /\ (pc[p] = "done" /\ out[p].kind = "throw") =>
            \E n \in {1, 3, 4, 5} :
              /\ trace[p] = SubSeq(MissSteps, 1, n)
              /\ calls[p] = [CallsAfter(n) EXCEPT !.cacheSet = 0]
              /\ out[p].error \in ErrorsOf(MissSteps[n])
              /\ out[p].error = loc[p].pqError
              /\ out[p].value = Null
              /\ loc[p].ragResult = Null

\* A call has failed at the generation gateway, after one embedding and one
\* search, and has left the cache empty.
C6_Witness ==
  \E p \in Procs :
    /\ req[p].op = "processQuery" /\ pc[p] = "done" /\ out[p].kind = "throw"
    /\ trace[p] = SubSeq(MissSteps, 1, 4)
    /\ calls[p].generate = 1
    /\ redis = <<>>

(***************************************************************************)
(* Properties of the chat turn.                                            *)
(***************************************************************************)
\* The message list stored for a session, empty when there is no session.
StoredMessages(sessionId) ==
  LET v == RedisGet(redis, SessionKey(sessionId)) IN
  IF v = Null THEN <<>> ELSE v.messages

PipelinePcs ==
  {"pq_cache", "pq_embed", "pq_search", "pq_generate", "pq_setcache",
   "pqs_embed", "pqs_search", "pqs_generate"}

\* The last stored message of the turn's session is the turn's user message.
UserMessageIsLast(p) ==
  LET msgs == StoredMessages(req[p].sessionId) IN
  /\ msgs # <<>>
  /\ msgs[Len(msgs)].role = "user"
  /\ msgs[Len(msgs)].content = req[p].message
  /\ SubSeq(msgs, 1, Len(msgs) - 1) = loc[p].sessionHistory

\* The last two stored messages of the turn's session are the turn's user
\* message and the assistant message made of the pipeline's result.
TurnIsLast(p) ==
  LET msgs == StoredMessages(req[p].sessionId)
      n == Len(msgs) IN
  /\ n >= 2
  /\ msgs[n - 1].role = "user" /\ msgs[n - 1].content = req[p].message
  /\ msgs[n].role = "assistant"
  /\ msgs[n].content = loc[p].ragResult.response
  /\ msgs[n].sources = loc[p].ragResult.sources
  /\ SubSeq(msgs, 1, n - 2) = loc[p].sessionHistory

\* C4: in a chat turn the user message is stored before the pipeline is
\* entered, so before the generation gateway is called, and it stays the
\* session's last message until the pipeline has returned; the assistant
\* message, with the result's response and sources, is stored only then,
\* after it.
C4_AppendOrder ==
  \A p \in Procs :
    req[p].op = "ask" =>
      /\ (pc[p] \in PipelinePcs \/ calls[p].generate > 0) =>
            /\ trace[p] # <<>> /\ trace[p][1] = "UserAppend"
            /\ calls[p].sessionSet >= 1
      /\ pc[p] \in PipelinePcs => loc[p].ragResult = Null /\ UserMessageIsLast(p)
      /\ (pc[p] \in {"am_get", "us_get", "us_set"} /\ loc[p].ret = "ask_respond") =>
            loc[p].ragResult # Null /\ UserMessageIsLast(p)
      /\ (pc[p] = "done" /\ out[p].kind = "return") =>
            /\ TurnIsLast(p)
            /\ trace[p][Len(trace[p])] = "AssistantAppend"
            /\ trace[p][Len(trace[p]) - 1] = "Done"

\* A turn has ended after a call of the generation gateway, with both of its
\* messages stored in a session that held an earlier turn.
C4_Witness ==
  \E p \in Procs :
    /\ req[p].op = "ask" /\ pc[p] = "done" /\ out[p].kind = "return"
    /\ calls[p].generate = 1
    /\ Len(StoredMessages(req[p].sessionId)) = 4
    /\ TurnIsLast(p)

\* A chat turn that has failed at one of the gateway steps.
FailedInPipeline(p) ==
  /\ req[p].op = "ask" /\ pc[p] = "done" /\ out[p].kind = "throw"
  /\ trace[p] # <<>>
  /\ trace[p][Len(trace[p])] \in {"Embed", "Retrieve", "Generate"}

\* C5: after a chat turn that failed at Embed, Retrieve or Generate the
\* session's message list is the list before the turn followed by the turn's
\* user message and nothing else; no cache key was written and the session
\* was written by the user append alone (and by creating a missing session).
C5_FailedTurnKeepsUserMessage ==
  \A p \in Procs :
    FailedInPipeline(p) =>
      /\ UserMessageIsLast(p)
      /\ Len(StoredMessages(req[p].sessionId)) = Len(loc[p].sessionHistory) + 1
      /\ loc[p].ragResult = Null
      /\ calls[p].cacheSet = 0
      /\ calls[p].sessionSet \in {1, 2}

\* A turn in a session that held an earlier turn has failed at the
\* generation gateway.
C5_Witness ==
  \E p \in Procs :
    /\ FailedInPipeline(p)
    /\ trace[p][Len(trace[p])] = "Generate"
    /\ Len(loc[p].sessionHistory) = 2
    /\ Len(StoredMessages(req[p].sessionId)) = 3

(***************************************************************************)
(* Properties of the session store.                                        *)
(***************************************************************************)
\* The step that ends process p's call of op.
Ends(p, op) == req[p].op = op /\ pc[p] # "done" /\ pc'[p] = "done"

\* C7: addMessageToSession for a session id with no stored session ends at
\* its first read with the error 'Session not found', and Redis is as it
\* was: no key is written and no session is created.
C7_AppendToMissingSession ==
  [][\A p \in Procs :
       (/\ req[p].op = "addMessageToSession" /\ pc[p] = "am_get"
        /\ RedisGet(redis, SessionKey(req[p].sessionId)) = Null
        /\ pc'[p] # "am_get")
       => /\ pc'[p] = "done"
          /\ out'[p] = Thrown("Session not found")
          /\ redis' = redis]_vars

\* An append to a session that is not stored has failed while another
\* session is stored.
C7_Witness ==
  \E p \in Procs :
    /\ req[p].op = "addMessageToSession" /\ pc[p] = "done"
    /\ out[p] = Thrown("Session not found")
    /\ SessionKey(req[p].sessionId) \notin DOMAIN redis
    /\ redis # <<>>

\* C8: an addMessageToSession(id, m) that directly follows the same caller's
\* createSession(id) returns, and the session stored under id then holds
\* exactly one message, m with its timestamp and id.
C8_CreateThenAppend ==
  \A p \in Procs :
    (req[p].op = "addMessageToSession" /\ loc[p].justCreated) =>
      /\ out[p].kind # "throw"
      /\ pc[p] = "done" =>
            LET msgs == StoredMessages(req[p].sessionId) IN
            /\ out[p].kind = "return"
            /\ Len(msgs) = 1
            /\ msgs[1].role = req[p].data.role
            /\ msgs[1].content = req[p].data.content
            /\ DOMAIN msgs[1] = DOMAIN req[p].data \cup {"timestamp", "id"}
            /\ out[p].value.messages = msgs

\* An append has returned directly after the creation of a session with the
\* session route's meta data.
C8_Witness ==
  \E p \in Procs :
    /\ req[p].op = "addMessageToSession" /\ loc[p].justCreated
    /\ pc[p] = "done" /\ out[p].kind = "return"
    /\ Len(StoredMessages(req[p].sessionId)) = 1
    /\ "ipAddress" \in DOMAIN RedisGet(redis, SessionKey(req[p].sessionId))

\* C9, as the specification states it: after createSession(id, meta), for
\* every id and every meta, the call has returned and the session stored
\* under id has that id and an empty message list.
C9_CreateStoresEmptySession ==
  [][\A p \in Procs :
       Ends(p, "createSession") =>
         /\ out'[p].kind = "return"
         /\ SessionKey(req[p].sessionId) \in DOMAIN redis'
         /\ redis'[SessionKey(req[p].sessionId)].val.id = req[p].sessionId
         /\ redis'[SessionKey(req[p].sessionId)].val.messages = <<>>]_vars

\* C10: addMessageToSession on a stored session stores the previous message
\* list with the new message, stamped with a timestamp and an id, added at
\* the end, and the session's other properties as they were but for
\* updatedAt, which is the time of the call; it sets the key's TTL to the
\* full session TTL, leaves the other keys alone, and returns the session as
\* it is stored.
C10_AppendStoresAndReturns ==
  [][\A p \in Procs :
       (Ends(p, "addMessageToSession") /\ out'[p].kind = "return") =>
         LET key == SessionKey(req[p].sessionId)
             before == redis[key].val
             after == redis'[key].val
             added == Spread(req[p].data, [timestamp |-> now, id |-> nextUuid - 1])
         IN
         /\ key \in DOMAIN redis /\ key \in DOMAIN redis'
         /\ after.messages = before.messages \o <<added>>
         /\ Len(after.messages) = Len(before.messages) + 1
         /\ after.updatedAt = now
         /\ DOMAIN after = DOMAIN before \cup {"updatedAt"}
         /\ \A f \in DOMAIN before \ {"messages", "updatedAt"} : after[f] = before[f]
         /\ redis'[key].ttl = SessionTTL
         /\ \A k \in DOMAIN redis' \ {key} : k \in DOMAIN redis /\ redis'[k] = redis[k]
         /\ DOMAIN redis \subseteq DOMAIN redis'
         /\ out'[p].value = after]_vars

\* A second message has been appended, some time after the first, to a
\* session whose TTL had run down.
C10_Witness ==
  \E p \in Procs :
    /\ req[p].op = "addMessageToSession" /\ pc[p] = "done" /\ out[p].kind = "return"
    /\ Len(out[p].value.messages) = 2
    /\ out[p].value.messages[1].timestamp < out[p].value.messages[2].timestamp
    /\ redis[SessionKey(req[p].sessionId)].ttl = SessionTTL

(***************************************************************************)
(* Properties of a session's lifetime.                                     *)
(***************************************************************************)
\* The time of the last write of a stored session: every write stamps it,
\* createSession as createdAt and updateSession as updatedAt.
LastWrite(session) ==
  IF "updatedAt" \in DOMAIN session THEN session.updatedAt ELSE session.createdAt

\* C11: a session's lifetime is a sliding TTL.  A stored session has the
\* full session TTL less the time since its last write left; createSession,
\* addMessageToSession and updateSession leave the key with the full TTL;
\* getSession leaves Redis as it is; and a stored session goes away only by
\* a clearSession of its id or by the passing of all the time it had left,
\* which does take it away.
C11_SlidingTTL ==
  /\ [](\A s \in SessionIds :
          SessionKey(s) \in DOMAIN redis =>
            /\ redis[SessionKey(s)].ttl > 0
            /\ redis[SessionKey(s)].ttl
                 = SessionTTL - (now - LastWrite(redis[SessionKey(s)].val)))
  /\ [][/\ \A p \in Procs :
            /\ (\/ Ends(p, "createSession") \/ Ends(p, "addMessageToSession")
                \/ Ends(p, "updateSession")) /\ out'[p].kind = "return"
                 => /\ SessionKey(req[p].sessionId) \in DOMAIN redis'
                    /\ redis'[SessionKey(req[p].sessionId)].ttl = SessionTTL
            /\ req[p].op = "getSession" /\ pc'[p] # pc[p] => redis' = redis
        /\ \A s \in SessionIds :
            LET key == SessionKey(s) IN
            /\ (key \in DOMAIN redis /\ key \notin DOMAIN redis') =>
                  \/ \E p \in Procs : pc[p] = "clearSession" /\ req[p].sessionId = s
                  \/ now' > now /\ redis[key].ttl <= now' - now
            /\ (key \in DOMAIN redis /\ now' > now /\ redis[key].ttl <= now' - now)
                  => key \notin DOMAIN redis'
            /\ (key \in DOMAIN redis /\ key \in DOMAIN redis'
                /\ redis'[key].ttl > redis[key].ttl)
                  => \E p \in Procs :
                       /\ req[p].sessionId = s
                       /\ pc[p] \in {"createSession", "us_set"}]_vars

\* A session that was written to some time after its creation was alive for
\* longer than the session TTL, and is gone now that the full TTL has passed
\* since that write.
C11_Witness ==
  \E p \in Procs :
    /\ req[p].op = "addMessageToSession" /\ pc[p] = "done" /\ out[p].kind = "return"
    /\ out[p].value.updatedAt > out[p].value.createdAt
    /\ now - out[p].value.updatedAt >= SessionTTL
    /\ SessionKey(req[p].sessionId) \notin DOMAIN redis

\* C12: clearSession(id) returns without an error whether or not a session
\* is stored under id, and leaves no session under id, whatever TTL it had
\* left, and every other key as it was; a getSession of an id with no
\* stored session returns null; and an id with no stored session gets one
\* only by a createSession of that id.
C12_ClearRemoves ==
  [][/\ \A p \in Procs :
         /\ Ends(p, "clearSession") =>
               LET key == SessionKey(req[p].sessionId) IN
               /\ out'[p] = Returned(Null)
               /\ key \notin DOMAIN redis'
               /\ RedisGet(redis', key) = Null
               /\ DOMAIN redis' = DOMAIN redis \ {key}
               /\ \A k \in DOMAIN redis' : redis'[k] = redis[k]
         /\ (Ends(p, "getSession")
             /\ SessionKey(req[p].sessionId) \notin DOMAIN redis)
               => out'[p] = Returned(Null)
     /\ \A s \in SessionIds :
         (SessionKey(s) \notin DOMAIN redis /\ SessionKey(s) \in DOMAIN redis')
           => \E p \in Procs : pc[p] = "createSession" /\ req[p].sessionId = s]_vars

\* A clearSession has returned and Redis is empty, after a message was
\* appended to a session and before any session could have expired: the
\* session that held the message was cleared with TTL left.
C12_Witness ==
  \E p \in Procs :
    /\ req[p].op = "clearSession" /\ pc[p] = "done" /\ out[p] = Returned(Null)
    /\ nextUuid = 2
    /\ now > 0 /\ now < SessionTTL
    /\ redis = <<>>

\* a is a prefix of b.
IsPrefix(a, b) == Len(a) <= Len(b) /\ SubSeq(b, 1, Len(a)) = a

\* C13, as the specification states it: every step of an addMessageToSession
\* or an updateSession call, whatever its updates argument, on a stored
\* session leaves the message list that was stored as a prefix of the message
\* list that is stored.
C13_MessagesAppendOnly ==
  [][\A p \in Procs :
       (/\ req[p].op \in {"addMessageToSession", "updateSession"}
        /\ SessionKey(req[p].sessionId) \in DOMAIN redis
        /\ SessionKey(req[p].sessionId) \in DOMAIN redis')
       => IsPrefix(redis[SessionKey(req[p].sessionId)].val.messages,
                   redis'[SessionKey(req[p].sessionId)].val.messages)]_vars

(***************************************************************************)
(* Properties of the session store under concurrent callers.               *)
(***************************************************************************)
\* C14: the session store does not serialize addMessageToSession calls.  The
\* message list a successful call stores is the list of the call's own first
\* read with its message added, whatever is stored at the time of the write:
\* what another call has stored between the read and the write is
\* overwritten, and the call returns the session it stored.
C14_AppendStoresItsOwnRead ==
  [][\A p \in Procs :
       (Ends(p, "addMessageToSession") /\ out'[p].kind = "return") =>
         LET key == SessionKey(req[p].sessionId)
             mine == loc[p].usUpdates.messages IN
         /\ key \in DOMAIN redis'
         /\ redis'[key].val.messages = mine
         /\ out'[p].value = redis'[key].val
         /\ \A i \in DOMAIN redis[key].val.messages :
              (\A j \in DOMAIN mine : mine[j].id # redis[key].val.messages[i].id)
                => \A j \in DOMAIN redis'[key].val.messages :
                     redis'[key].val.messages[j].id
                       # redis[key].val.messages[i].id]_vars

\* Two overlapping appends to one session have both returned, each with a
\* list that ends in its own message, and the stored list holds one message.
C14_Witness ==
  /\ \A p \in Procs :
       /\ req[p].op = "addMessageToSession" /\ pc[p] = "done"
       /\ out[p].kind = "return"
       /\ req[p].sessionId = req["p1"].sessionId
       /\ Len(out[p].value.messages) = 1
  /\ out["p1"].value.messages[1].id # out["p2"].value.messages[1].id
  /\ Len(StoredMessages(req["p1"].sessionId)) = 1
  /\ nextUuid = 3

(***************************************************************************)
(* Properties of chat turns made one after the other.                      *)
(***************************************************************************)
\* The messages are in the order in which they were stamped, and every
\* assistant message directly follows a user message.
InTurnOrder(msgs) ==
  /\ \A i, j \in DOMAIN msgs : i < j => msgs[i].id < msgs[j].id
  /\ \A i \in DOMAIN msgs :
       msgs[i].role = "assistant" => i > 1 /\ msgs[i - 1].role = "user"

\* C15: with one chat turn at a time, the stored message list of every
\* session is in the order in which the turns were made, each assistant
\* message directly after the user message of its turn; no step of a turn
\* removes or moves a stored message, each adds at most one at the end; and
\* when a turn has succeeded the list is the list the turn found, then its
\* user message, then its assistant message.
C15_SerialTurnsInOrder ==
  /\ [](\A s \in SessionIds : InTurnOrder(StoredMessages(s)))
  /\ [](\A p \in Procs :
          (req[p].op = "ask" /\ pc[p] = "done" /\ out[p].kind = "return") =>
            LET msgs == StoredMessages(req[p].sessionId) IN
            /\ msgs = loc[p].sessionHistory
                        \o SubSeq(msgs, Len(msgs) - 1, Len(msgs))
            /\ msgs[Len(msgs) - 1].role = "user"
            /\ msgs[Len(msgs) - 1].content = req[p].message
            /\ msgs[Len(msgs)].role = "assistant"
            /\ msgs[Len(msgs)].content = out[p].value.response)
  /\ [][\A p \in Procs :
          (/\ req[p].op = "ask"
           /\ SessionKey(req[p].sessionId) \in DOMAIN redis
           /\ SessionKey(req[p].sessionId) \in DOMAIN redis')
          => LET before == redis[SessionKey(req[p].sessionId)].val.messages
                 after == redis'[SessionKey(req[p].sessionId)].val.messages IN
             /\ IsPrefix(before, after)
             /\ Len(after) <= Len(before) + 1]_vars

\* Two turns in one session have succeeded one after the other, and the
\* session holds the first turn's two messages and then the second's.
C15_Witness ==
  \E p \in Procs :
    /\ req[p].op = "ask" /\ pc[p] = "done" /\ out[p].kind = "return"
    /\ LET msgs == StoredMessages(req[p].sessionId) IN
       /\ Len(msgs) = 4
       /\ [i \in 1..4 |-> msgs[i].role] = <<"user", "assistant", "user", "assistant">>
       /\ [i \in 1..4 |-> msgs[i].id] = <<1, 2, 3, 4>>
       /\ Len(loc[p].sessionHistory) = 2

\* C16: a chat turn that finds no session stored under its session id goes
\* on to create it; the creation stores a session with that id and an empty
\* message list, and the turn goes on to append its user message; and no
\* turn ends with the error 'Session not found'.
C16_UnknownSessionCreated ==
  /\ [][\A p \in Procs :
          LET key == SessionKey(req[p].sessionId) IN
          /\ (/\ req[p].op = "ask" /\ pc[p] = "ask_getSession"
              /\ pc'[p] # pc[p] /\ key \notin DOMAIN redis)
                => pc'[p] = "ask_createSession" /\ out'[p] = NoOut
          /\ (pc[p] = "ask_createSession" /\ pc'[p] # pc[p])
                => /\ key \in DOMAIN redis'
                   /\ redis'[key].val.id = req[p].sessionId
                   /\ redis'[key].val.messages = <<>>
                   /\ redis'[key].ttl = SessionTTL
                   /\ pc'[p] = "am_get"
                   /\ loc'[p].amMsg.role = "user"
                   /\ loc'[p].amMsg.content = req[p].message
                   /\ out'[p] = NoOut]_vars
  /\ [](\A p \in Procs :
          req[p].op = "ask" => out[p].error # "Session not found")

\* A turn for a session id that was not stored has succeeded: it has written
\* the session three times, to create it and to append its two messages,
\* which are all the session holds.
C16_Witness ==
  \E p \in Procs :
    /\ req[p].op = "ask" /\ pc[p] = "done" /\ out[p].kind = "return"
    /\ calls[p].sessionSet = 3
    /\ loc[p].sessionHistory = <<>>
    /\ Len(StoredMessages(req[p].sessionId)) = 2

(***************************************************************************)
(* Properties of the result of a chat turn.                                *)
(***************************************************************************)
\* The pipeline of turn p has a result, from a search that found nothing.
ResultOfNoHits(p) ==
  /\ req[p].op = "ask" /\ loc[p].ragResult # Null
  /\ calls[p].search = 1 /\ loc[p].similarDocs = <<>>

\* C17, as the specification states it: the result of a turn whose search
\* found nothing has an empty sources list and a note, and a result has a
\* note only if it was made on that path (by this turn, or by the turn whose
\* cached result this one returns).
C17_EmptyContextNote ==
  \A p \in Procs :
    (req[p].op = "ask" /\ loc[p].ragResult # Null) =>
      /\ ResultOfNoHits(p) =>
            /\ loc[p].ragResult.sources = <<>>
            /\ "note" \in DOMAIN loc[p].ragResult
      /\ "note" \in DOMAIN loc[p].ragResult =>
            ResultOfNoHits(p) \/ IsHitTrace(trace[p])

\* The fields of the result envelope.
EnvelopeFields == {"response", "sources", "query", "sessionId", "timestamp", "cached"}

\* C18, as the specification states it: the result of every turn, served
\* from the cache or generated, with or without context, streamed or not,
\* has the answer text, the sources, the query, the session id, a timestamp
\* and the cached flag.
C18_ResultEnvelope ==
  \A p \in Procs :
    (req[p].op = "ask" /\ loc[p].ragResult # Null) =>
      /\ EnvelopeFields \subseteq DOMAIN loc[p].ragResult
      /\ loc[p].ragResult.cached \in BOOLEAN

(***************************************************************************)
(* Properties of the history in the generation prompt.                     *)
(***************************************************************************)
GenerationPcs == {"pq_generate", "pqs_generate"}

\* C19: the history in the prompt of a generation call is made of the last
\* five messages of the session history that the call was given, or of all
\* of them when there are fewer, one line each in their order in the
\* history; and the steps that call the generation gateway and that take
\* its answer leave Redis, and so every session's message list, and the
\* session history they hold as they were.
C19_PromptHistory ==
  /\ [](\A p \in Procs :
          /\ (pc[p] \in GenerationPcs /\ geminiKey) => loc[p].historyText # Undefined
          /\ loc[p].historyText # Undefined =>
                LET h == loc[p].sessionHistory
                    k == IF Len(h) < 5 THEN Len(h) ELSE 5 IN
                loc[p].historyText
                  = JoinLines([i \in 1..k |-> HistoryLine(h[Len(h) - k + i])]))
  /\ [][\A p \in Procs :
          (/\ pc[p] \in GenerationPcs \cup {"pq_search", "pqs_search"}
           /\ pc'[p] # pc[p])
          => /\ redis' = redis
             /\ loc'[p].sessionHistory = loc[p].sessionHistory]_vars

\* A turn in a session that held seven messages has succeeded with a
\* generated answer, and the prompt had the lines of messages three to seven.
C19_Witness ==
  \E p \in Procs :
    /\ req[p].op = "ask" /\ pc[p] = "done" /\ out[p].kind = "return"
    /\ calls[p].generate = 1
    /\ Len(loc[p].sessionHistory) = 7
    /\ loc[p].historyText
         = "User: m3\nAssistant: m4\nUser: m5\nAssistant: m6\nUser: m7"
    /\ Len(StoredMessages(req[p].sessionId)) = 9

\* The generation gateway has been called in turn p.
GenerationInvoked(p) ==
  req[p].op = "ask" /\ (pc[p] \in GenerationPcs \/ calls[p].generate > 0)

\* C20: when a chat turn follows a turn of the same caller in the same
\* session that succeeded, and calls the generation gateway, the session
\* history it passes ends with the earlier turn's user message and assistant
\* message, and the history in the prompt ends with their two lines, after
\* the lines of at most three earlier messages.
C20_SecondTurnSeesFirst ==
  \A p \in Procs :
    (GenerationInvoked(p) /\ loc[p].prevTurn # <<>>) =>
      LET h == loc[p].sessionHistory
          n == Len(h) IN
      /\ n >= 2
      /\ SubSeq(h, n - 1, n) = loc[p].prevTurn
      /\ h[n - 1].role = "user" /\ h[n].role = "assistant"
      /\ geminiKey =>
            \E k \in 0..3 :
              /\ k <= n - 2
              /\ loc[p].historyText
                   = JoinLines([i \in 1..k |-> HistoryLine(h[n - 2 - k + i])]
                               \o <<HistoryLine(loc[p].prevTurn[1]),
                                     HistoryLine(loc[p].prevTurn[2])>>)

\* A turn that follows a streamed turn in the same session has missed the
\* cache and got a generated answer, with the streamed turn's question and
\* answer as the history in its prompt.
C20_Witness ==
  \E p \in Procs :
    /\ req[p].op = "ask" /\ pc[p] = "done" /\ out[p].kind = "return"
    /\ ~req[p].streaming
    /\ calls[p].generate = 1
    /\ Len(loc[p].prevTurn) = 2
    /\ loc[p].prevTurn[2].content = "answer A"
    /\ loc[p].historyText = "User: Why?\nAssistant: answer A"

(***************************************************************************)
(* Properties of the cache key.                                            *)
(***************************************************************************)
\* C21, as the specification states it: two queries get the same cache key
\* if and only if their texts are the same code unit for code unit, whatever
\* their session ids.
C21_KeyInjective ==
  \A p, q \in Procs :
    (/\ req[p].op = "cacheKey" /\ pc[p] = "done"
     /\ req[q].op = "cacheKey" /\ pc[q] = "done")
    => (out[p].value = out[q].value <=> req[p].data = req[q].data)

(***************************************************************************)
(* Properties of the sources of a result.                                  *)
(***************************************************************************)
\* A chat turn whose pipeline has a result that did not come from the cache.
FreshResult(p) ==
  req[p].op = "ask" /\ loc[p].ragResult # Null /\ ~IsHitTrace(trace[p])

\* C22: the sources of a result that was not served from the cache are the
\* documents that the search returned, one source for each document and in
\* the same order, each with the document's title, url and source and
\* nothing else, with a generation credential and without one; and the
\* answer of a turn that is not streamed carries the same sources.
C22_SourcesAreRetrieved ==
  \A p \in Procs :
    FreshResult(p) =>
      LET docs == loc[p].similarDocs
          sources == loc[p].ragResult.sources IN
      /\ Len(sources) = Len(docs)
      /\ \A i \in DOMAIN docs :
           sources[i] = [title |-> docs[i].title, url |-> docs[i].url,
                         source |-> docs[i].source]
      /\ (pc[p] = "done" /\ out[p].kind = "return" /\ ~req[p].streaming)
            => res[p].body.sources = sources

\* Without a generation credential a turn has returned a canned answer whose
\* sources are the two documents of the search, the best one first.
C22_Witness ==
  \E p \in Procs :
    /\ FreshResult(p) /\ ~geminiKey
    /\ pc[p] = "done" /\ out[p].kind = "return"
    /\ Len(loc[p].similarDocs) = 2
    /\ Len(out[p].value.sources) = 2
    /\ out[p].value.sources[1].url = "http://a/1"
    /\ out[p].value.sources[2].url = "http://a/2"

(***************************************************************************)
(* Properties of streamed answers.                                         *)
(***************************************************************************)
\* C23, as the specification states it: when a streamed turn has completed,
\* the chunks written to the response, concatenated in the order in which
\* they were written, are the response text of the turn's result.
C23_ChunksConcatenateToText ==
  \A p \in Procs :
    (/\ req[p].op = "ask" /\ req[p].streaming
     /\ pc[p] = "done" /\ out[p].kind = "return")
    => Concat(res[p].chunks) = out[p].value.response

(***************************************************************************)
(* Properties of validation.                                               *)
(***************************************************************************)
\* The message is a non-empty string whose length without the white space
\* at its two ends is from 3 to 500.
Acceptable(message) ==
  /\ message \notin {"", Undefined, "<number>"}
  /\ LET u == CodeUnits(message)
         inner == {i \in DOMAIN u : u[i] \notin WhiteSpace}
         n == IF inner = {} THEN 0
              ELSE 1 + (CHOOSE i \in inner : \A j \in inner : j <= i)
                     - (CHOOSE i \in inner : \A j \in inner : i <= j)
     IN n >= 3 /\ n <= 500

ValidationErrors ==
  {"Session ID and message are required", "Query must be a non-empty string",
   "Query must be at least 3 characters long",
   "Query must be less than 500 characters"}

\* C24: validateQuery accepts a message exactly when it is a non-empty
\* string whose trimmed length is from 3 to 500, and a chat turn goes on to
\* read its session exactly when its message is one of these; any other turn
\* is answered with status 400 and a validation error, and from its arrival
\* to its answer it reads no session, checks no cache, calls no gateway,
\* and leaves Redis as it is.
C24_ValidationGate ==
  /\ [](\A p \in Procs :
          (req[p].op = "validateQuery" /\ pc[p] = "done") =>
            /\ out[p].value.valid <=> Acceptable(req[p].message)
            /\ out[p].value.valid \/ out[p].value.error \in ValidationErrors)
  /\ [](\A p \in Procs :
          req[p].op = "ask" =>
            /\ (pc[p] = "bad_request" \/ res[p].status = 400)
                 <=> ~Acceptable(req[p].message)
            /\ ~Acceptable(req[p].message) =>
                 /\ pc[p] \in {"bad_request", "done"}
                 /\ calls[p] = NoCalls /\ trace[p] = <<>>
                 /\ loc[p].session = Null
                 /\ out[p] = NoOut
                 /\ pc[p] = "done" =>
                      /\ res[p].status = 400 /\ res[p].ended
                      /\ res[p].body.success = FALSE
                      /\ res[p].body.error \in ValidationErrors)
  /\ [][\A p \in Procs :
          (req'[p].op = "ask" /\ ~Acceptable(req'[p].message) /\ pc'[p] # pc[p])
            => redis' = redis /\ written' = written /\ nextUuid' = nextUuid]_vars

\* A message of two letters between white space, four characters in all,
\* has been rejected as too short, and Redis is empty.
C24_Witness ==
  \E p \in Procs :
    /\ req[p].op = "ask" /\ req[p].message = " hi\t"
    /\ pc[p] = "done"
    /\ res[p].body.error = "Query must be at least 3 characters long"
    /\ redis = <<>>

(***************************************************************************)
(* Properties of the embedding gateway.                                    *)
(***************************************************************************)
\* A call of createEmbedding that has ended.
Embedded(p) == req[p].op = "createEmbedding" /\ pc[p] = "done"

\* C25: createEmbedding returns whatever the provider does: when the provider
\* fails or no client is configured, it returns the fallback embedding of its
\* text.  A chat turn that has passed the embedding, streamed or not, holds
\* the provider's embedding or the fallback embedding of its message, and no
\* turn ends with an error at the embedding.
C25_EmbedNeverFails ==
  \A p \in Procs :
    /\ Embedded(p) =>
         /\ out[p].kind = "return"
         /\ req[p].data.provider # "ok" =>
              out[p].value = CreateFallbackEmbedding(req[p].message)
    /\ (req[p].op = "ask" /\ pc[p] \in {"pq_search", "pqs_search"}) =>
         loc[p].queryEmbedding \in {CreateEmbedding(req[p].message, "ok"),
                                    CreateFallbackEmbedding(req[p].message)}
    /\ (req[p].op = "ask" /\ pc[p] = "done" /\ out[p].kind = "throw") =>
         (trace[p] = <<>> \/ trace[p][Len(trace[p])] # "Embed")

\* A call whose provider request failed has returned the fallback embedding,
\* and a chat turn goes on to the search with the fallback embedding of its
\* message.
C25_Witness ==
  /\ \E p \in Procs :
       /\ Embedded(p) /\ req[p].data.provider = "error"
       /\ out[p].value.kind = "fallback"
  /\ \E p \in Procs :
       /\ req[p].op = "ask" /\ pc[p] \in {"pq_search", "pqs_search"}
       /\ loc[p].queryEmbedding.kind = "fallback"

Ingested(p) == req[p].op = "runIngestion" /\ pc[p] = "done"

\* The documents of the run's batch that have the url, by their places in
\* the batch, and those of them that are in the vector index.
SharingUrl(p, url) == {i \in DOMAIN req[p].data : req[p].data[i].url = url}

IndexedOf(p, places) == {i \in places : req[p].data[i].id \in DOMAIN qdrant}

FirstOf(places) == CHOOSE i \in places : \A j \in places : i <= j

\* The article of the run that has the id, as it is after the enrichment;
\* none if the article was dropped before.
EnrichedWithId(p, id) ==
  {loc[p].enrichedArticles[i] :
     i \in {j \in DOMAIN loc[p].enrichedArticles :
              loc[p].enrichedArticles[j].id = id}}

\* C27, as the specification states it: after a run over a batch in which
\* several documents share a url, exactly one of them is in the vector index,
\* the one that occurs first in the batch.
C27_FirstDuplicateIndexed ==
  \A p \in Procs : \A url \in FeedUrls :
    (Ingested(p) /\ Cardinality(SharingUrl(p, url)) >= 2) =>
      IndexedOf(p, SharingUrl(p, url)) = {FirstOf(SharingUrl(p, url))}

\* C27, corrected: of the documents of a batch that share a url, none but the
\* one that occurs first is ever in the vector index; and after the run the
\* first one is in the index exactly if it was among the first 50 distinct
\* documents, its title is longer than 10 characters and its content, after
\* the enrichment, longer than 50, and the upsert of the run was carried out.
C27_OnlyFirstDuplicateIndexed ==
  \A p \in Procs : \A url \in FeedUrls :
    (req[p].op = "runIngestion" /\ Cardinality(SharingUrl(p, url)) >= 2) =>
      LET first == FirstOf(SharingUrl(p, url)) IN
      /\ IndexedOf(p, SharingUrl(p, url)) \subseteq {first}
      /\ Ingested(p) =>
           (first \in IndexedOf(p, SharingUrl(p, url))
              <=> /\ calls[p].upsert = 1
                  /\ \E a \in EnrichedWithId(p, req[p].data[first].id) :
                       Len(a.title) > 10 /\ Len(a.content) > 50)

\* A run over two valid documents with the same url has succeeded: the first
\* one is in the vector index, with the url, and the second one is not.
C27_Witness ==
  \E p \in Procs :
    /\ Ingested(p) /\ out[p].value.success
    /\ Len(req[p].data) = 2
    /\ req[p].data[1].url = req[p].data[2].url
    /\ ValidArticle(req[p].data[2])
    /\ req[p].data[1].id \in DOMAIN qdrant
    /\ qdrant[req[p].data[1].id].payload.url = req[p].data[1].url
    /\ req[p].data[2].id \notin DOMAIN qdrant

\* C28, as the specification states it: a run that went through returns the
\* number of its documents that are in the vector index.
C28_RunCountsIndexed ==
  \A p \in Procs :
    (Ingested(p) /\ out[p].value.success) =>
      out[p].value.articlesCount = Cardinality(IndexedOf(p, DOMAIN req[p].data))

(***************************************************************************)
(* Properties of the search.                                               *)
(***************************************************************************)
\* The hits are at most limit, each scores at least scoreThreshold, and none
\* scores higher than a hit before it.
WithinSearch(hits, limit, scoreThreshold) ==
  /\ Len(hits) <= limit
  /\ \A i \in DOMAIN hits : hits[i].score >= scoreThreshold
  /\ \A i, j \in DOMAIN hits : i < j => hits[i].score >= hits[j].score

\* C29: the hits that searchSimilar(vector, limit, scoreThreshold) returns
\* are at most limit, each with a score of at least scoreThreshold, a higher
\* score before a lower; and every search of the pipeline, streamed or not,
\* is called with the limit 5 and the score threshold 0.7 and gives the
\* pipeline documents within them.
C29_SearchWithinLimitAndFloor ==
  \A p \in Procs :
    /\ (req[p].op = "searchSimilar" /\ pc[p] = "done" /\ out[p].kind = "return")
          => WithinSearch(out[p].value, req[p].data.limit,
                          req[p].data.scoreThreshold)
    /\ (req[p].op = "ask" /\ calls[p].search > 0)
          => /\ calls[p].searchArgs = [limit |-> 5, scoreThreshold |-> 70]
             /\ WithinSearch(loc[p].similarDocs, 5, 70)

\* A search for the 2 best points that score 0.7 or more has returned, of the
\* six such points, the ones that score 0.91 and 0.88, in this order; or a
\* search for 5 points that score 0.8 or more the four such points.
C29_Witness ==
  \E p \in Procs :
    /\ req[p].op = "searchSimilar" /\ pc[p] = "done" /\ out[p].kind = "return"
    /\ \/ /\ req[p].data = [limit |-> 2, scoreThreshold |-> 70]
          /\ Len(out[p].value) = 2
          /\ out[p].value[1].score = 91 /\ out[p].value[2].score = 88
       \/ /\ req[p].data = [limit |-> 5, scoreThreshold |-> 80]
          /\ Len(out[p].value) = 4
          /\ out[p].value[4].id = "d6"

(***************************************************************************)
(* Properties of the lifetime of a cache entry.                            *)
(***************************************************************************)
\* The Redis key of the cache entry of the query of p's request.
EntryKey(p) == CacheKey(QueryCacheKey(req[p].message))

\* The parts of C30 that hold of every chat turn: a cache entry is written
\* with a TTL of 1800 seconds, and a turn is served from the cache only if
\* its query's entry was written less than 1800 seconds before.
C30_FixedTTLAndExpiry ==
  [][\A p \in Procs :
       /\ calls'[p].cacheSet > calls[p].cacheSet =>
            redis'[EntryKey(p)].ttl = 1800
       /\ (req[p].op = "ask" /\ pc[p] = "pq_cache" /\ IsHitTrace(trace'[p])) =>
            WritesFor(written, QueryCacheKey(req[p].message)) # <<>>]_vars

\* C30, as the specification states it: in addition, a chat turn that was not
\* served from the cache has, when it ends with an answer, written a fresh
\* entry for its query, which has a TTL of 1800 seconds.
C30_AskRewritesExpiredEntry ==
  /\ C30_FixedTTLAndExpiry
  /\ [][\A p \in Procs :
          (/\ req[p].op = "ask" /\ pc[p] # "done" /\ pc'[p] = "done"
           /\ out'[p].kind = "return" /\ ~IsHitTrace(trace'[p]))
          => /\ EntryKey(p) \in DOMAIN redis'
             /\ redis'[EntryKey(p)].ttl = 1800]_vars
(***************************************************************************)
(* Properties of the store's key space.                                    *)
(***************************************************************************)
SessionStoreOps ==
  {"createSession", "getSession", "updateSession", "addMessageToSession",
   "clearSession"}
CacheOps == {"setCache", "getCache", "deleteCache", "clearAllCache"}

\* The keys that a step creates, removes or gives another value or TTL.
ChangedKeys ==
  {k \in (DOMAIN redis) \cup (DOMAIN redis') :
     \/ (k \in DOMAIN redis) # (k \in DOMAIN redis')
     \/ k \in (DOMAIN redis) \cap (DOMAIN redis') /\ redis[k] # redis'[k]}

\* Process p takes the step.
Stepped(p) == <<pc[p], loc[p], out[p]>>' # <<pc[p], loc[p], out[p]>>

\* What the store holds under a key, the TTL included; null if nothing.
Held(store, key) == IF key \in DOMAIN store THEN store[key] ELSE Null

C32_CreateCollectionIdempotent ==
  [][\A p \in Procs :
       (Stepped(p) /\ req'[p].op \in {"createCollection", "initializeQdrant"}) =>
         /\ qdrant' = qdrant
         /\ collections' # collections =>
              /\ "news_articles" \notin DOMAIN collections
              /\ pc[p] = "cc_put"
              /\ collections' =
                   [n \in (DOMAIN collections) \cup {"news_articles"} |->
                      IF n = "news_articles"
                      THEN [size |-> 768, distance |-> "Cosine"]
                      ELSE collections[n]]
         /\ (pc[p] = "cc_get" /\ "news_articles" \in DOMAIN collections) =>
              /\ pc'[p] = "done"
              /\ collections' = collections
              /\ out'[p].kind # "return" =>
                   faults /\ out'[p] = Thrown("Request failed with status code 503")
         /\ (pc[p] = "cc_get" /\ "news_articles" \notin DOMAIN collections) =>
              pc'[p] = "cc_put" \/ (faults /\ out'[p].kind = "throw")]_vars

\* A process has started against an index whose collection holds points: the
\* connection was tested, the collection was found in the list, and the
\* call returned with the collection and its points in place.
C32_Witness ==
  \E p \in Procs :
    /\ req[p].op = "initializeQdrant" /\ pc[p] = "done"
    /\ out[p].kind = "return"
    /\ trace[p] = <<"TestConnection", "ListCollections">>
    /\ collections = Created(<<>>)
    /\ qdrant = FilledCollection

(***************************************************************************)
(* Properties of the result that processQuery returns.                     *)
(***************************************************************************)
\* C33: the result that a processQuery call returns carries the session id
\* that the call was made with, whether the result was built by the call or
\* taken from the cache.
C33_ResultCarriesCallersSession ==
  \A p \in Procs :
    PqReturned(p) => out[p].value.sessionId = req[p].sessionId

\* C34: no result that processQuery returns, built or taken from the cache,
\* and no entry that the cache holds has a cached field other than false.
C34_CachedFlagNeverTrue ==
  /\ \A p \in Procs : PqReturned(p) => out[p].value.cached = FALSE
  /\ \A q \in Queries :
       CacheKey(QueryCacheKey(q)) \in DOMAIN redis =>
         redis[CacheKey(QueryCacheKey(q))].val.cached = FALSE

\* A call was served from the cache, without a gateway call, and its result
\* says cached: false.
C34_Witness ==
  \E p \in Procs :
    /\ PqReturned(p)
    /\ trace[p] = HitSteps
    /\ calls[p] = NoCalls
    /\ out[p].value.cached = FALSE

(***************************************************************************)
(* Properties of the streamed chat turn.                                   *)
(***************************************************************************)
\* C35: no step of a streamed chat turn changes a key of the store other
\* than the turn's session key, so the query-result cache stays as it is and
\* the turn has no cache write carried out; and a streamed turn that has
\* ended with a result has called the embedding gateway once and the vector
\* index once, and the generation gateway once if and only if the index
\* returned documents, whatever the cache held for its query.
C35_StreamingBypassesCache ==
  [][\A p \in Procs :
       (Stepped(p) /\ req'[p].op = "ask" /\ req'[p].streaming) =>
         /\ ChangedKeys \subseteq {"session:" \o req'[p].sessionId}
         /\ written' = written
         /\ calls'[p].cacheSet = 0
         /\ (pc'[p] = "done" /\ out'[p].kind = "return") =>
              /\ calls'[p].embed = 1
              /\ calls'[p].search = 1
              /\ calls'[p].generate = IF loc'[p].similarDocs # <<>> THEN 1 ELSE 0
              /\ \E i \in DOMAIN trace'[p] :
                   /\ i < Len(trace'[p])
                   /\ trace'[p][i] = "Embed" /\ trace'[p][i + 1] = "Retrieve"
              /\ \A i \in DOMAIN trace'[p] : trace'[p][i] # "CacheCheck"]_vars

\* A streamed turn has ended with a generated answer while the cache held an
\* unexpired entry for its query, which it left as it was written.
C35_Witness ==
  \E p \in Procs :
    /\ req[p].op = "ask" /\ req[p].streaming
    /\ pc[p] = "done" /\ out[p].kind = "return"
    /\ calls[p].generate = 1
    /\ CacheKey(QueryCacheKey(req[p].message)) \in DOMAIN redis
    /\ Len(written) = 1
    /\ redis[CacheKey(QueryCacheKey(req[p].message))].val = written[1].val

(***************************************************************************)
(* Properties of overlapping requests.                                     *)
(***************************************************************************)
\* The cache entry of a query is the value of the latest cache write for it
\* that has not expired, a complete result; there is none without one.
LastWriteCached(store, w) ==
  \A q \in Queries :
    LET stored == WritesFor(w, QueryCacheKey(q)) IN
    IF stored = <<>> THEN "cache:" \o QueryCacheKey(q) \notin DOMAIN store
    ELSE /\ "cache:" \o QueryCacheKey(q) \in DOMAIN store
         /\ store["cache:" \o QueryCacheKey(q)].val = stored[Len(stored)].val
         /\ EnvelopeFields \subseteq DOMAIN stored[Len(stored)].val

\* C36: at every moment the cache holds for a query the complete result of
\* the call whose cache write was carried out last.  A processQuery call
\* whose cache read finds no entry goes on to the gateways, whether or not
\* another call for the query is under way, and when its own cache write is
\* done it returns the result that it built: one generation call, its own
\* session.  A call whose cache read finds an entry returns that entry.
C36_LastCacheWriteWins ==
  [][/\ LastWriteCached(redis', written')
     /\ \A p \in Procs :
          (req[p].op = "processQuery" /\ Stepped(p) /\ out'[p].kind # "throw") =>
            /\ pc[p] = "pq_cache" =>
                 LET stored == WritesFor(written, QueryCacheKey(req[p].message)) IN
                 IF stored = <<>>
                 THEN pc'[p] = "pq_embed"
                 ELSE pc'[p] = "done" /\ out'[p] = Returned(stored[Len(stored)].val)
            /\ pc[p] = "pq_setcache" =>
                 /\ pc'[p] = "done"
                 /\ calls'[p].generate = 1
                 /\ out'[p] = Returned(loc[p].finalResult)
                 /\ out'[p].value.sessionId = req[p].sessionId
                 /\ written' = Append(written,
                                      [key |-> QueryCacheKey(req[p].message),
                                       val |-> out'[p].value,
                                       left |-> 1800])]_vars

\* Two overlapping calls of two sessions have both missed the cache and have
\* both called the generation gateway; each has returned its own result, the
\* two results differ, and the cache holds the one that was written last.
C36_Witness ==
  \E p \in Procs, o \in Procs :
    /\ p # o
    /\ PqReturned(p) /\ PqReturned(o)
    /\ trace[p] = MissSteps /\ trace[o] = MissSteps
    /\ calls[p].generate = 1 /\ calls[o].generate = 1
    /\ out[p].value.response # out[o].value.response
    /\ out[p].value.sessionId # out[o].value.sessionId
    /\ Len(written) = 2
    /\ written[1].val = out[p].value /\ written[2].val = out[o].value
    /\ redis[CacheKey(QueryCacheKey(req[p].message))].val = out[o].value

\* The user message that turn p has had stored.
OwnUserMessage(p) ==
  LET stored == loc[p].usUpdated.messages IN stored[Len(stored)]

\* C37: a chat turn goes on to createSession exactly when its read finds no
\* session under the id, whatever other turns for the id are under way; and
\* its createSession stores the session anew, without messages and with the
\* full TTL, whatever the key holds by then.
C37_CreateSessionReinitializes ==
  [][\A p \in Procs :
       (req[p].op = "ask" /\ Stepped(p)) =>
         /\ pc[p] = "ask_getSession" =>
              (pc'[p] = "ask_createSession"
                 <=> "session:" \o req[p].sessionId \notin DOMAIN redis)
         /\ pc[p] = "ask_createSession" =>
              /\ pc'[p] = "am_get"
              /\ redis'["session:" \o req[p].sessionId].ttl = 3600
              /\ redis'["session:" \o req[p].sessionId].val.id = req[p].sessionId
              /\ redis'["session:" \o req[p].sessionId].val.messages = <<>>]_vars

\* Two turns for the same unknown session have both created the session: one
\* has had its user message stored and waits in the pipeline, and the
\* createSession of the other, carried out after that, has left a session
\* without messages.
C37_Witness ==
  \E p \in Procs, o \in Procs :
    /\ p # o
    /\ req[p].op = "ask" /\ req[o].op = "ask"
    /\ req[p].sessionId = req[o].sessionId
    /\ calls[p].sessionSet = 2 /\ pc[p] \in PipelinePcs
    /\ OwnUserMessage(p).role = "user"
    /\ calls[o].sessionSet = 1 /\ pc[o] = "am_get" /\ loc[o].ret = "ask_rag"
    /\ redis[SessionKey(req[p].sessionId)].val.messages = <<>>

\* Turn p has had its user message stored and its assistant message not yet.
BetweenAppends(p) ==
  /\ req[p].op = "ask" /\ Busy(p)
  /\ \E i \in DOMAIN trace[p] : trace[p][i] = "UserAppend"

\* C38: when the session of a turn is gone, cleared or run out, after the
\* turn's user message was stored and before its assistant message is, the
\* turn does not bring the session back; its append of the assistant message
\* fails, and the turn ends with the error Session not found and reports
\* the failure to its caller, while the result that it wrote to the cache is
\* still there.
C38_GoneSessionFailsTurn ==
  [][\A p \in Procs :
       (/\ BetweenAppends(p)
        /\ "session:" \o req[p].sessionId \notin DOMAIN redis
        /\ Stepped(p)) =>
         /\ "session:" \o req[p].sessionId \notin DOMAIN redis'
         /\ pc[p] \in {"am_get", "us_get", "us_set"} => pc'[p] = "done"
         /\ pc'[p] = "done" =>
              /\ out'[p] = Thrown("Session not found")
              /\ res'[p].status = 500
              /\ res'[p].body = [success |-> FALSE,
                                 error |-> "Failed to process message"]
              /\ calls[p].cacheSet = 1 =>
                   /\ "cache:" \o QueryCacheKey(req[p].message) \in DOMAIN redis'
                   /\ redis'["cache:" \o QueryCacheKey(req[p].message)].val
                        = loc[p].finalResult]_vars

(***************************************************************************)
(* Properties of the completion of the response.                           *)
(***************************************************************************)
\* C39: every chat turn whose handler has run to its end, by its return or
\* through its catch, has completed its response to the caller: the headers
\* are sent and the response is ended, also when the turn is streamed and
\* its pipeline or its append of the assistant message failed after the
\* chunked response was started.
C39_AskCompletesResponse ==
  \A p \in Procs :
    (req[p].op = "ask" /\ pc[p] = "done") =>
      res[p].headersSent /\ res[p].ended

====
